---- MODULE Spec2Model ----
(***************************************************************************)
(* A model of scripts/batch_armorfx.py: the batch driver cmd_apply, the    *)
(* per-file pipeline process_file, the armor pass apply_armorfx and the    *)
(* loudness render _render_ffmpeg with its three-variant fallback ladder.  *)
(*                                                                         *)
(* Paths are sequences of names and names are sequences of characters, so   *)
(* that the string tests of the code (startswith on str(path), the m_ and  *)
(* .tmp_ prefixes, the .ogg suffix) are computed as the code computes them. *)
(*                                                                         *)
(* scripts/fix_filenames.py is a separate program: its process_folder is   *)
(* modelled by the fix_* variables and SpecFix, idle during a batch.       *)
(***************************************************************************)
EXTENDS Integers, Sequences, FiniteSets, TLC

VARIABLES
    args,      \* the parsed command line (argparse.Namespace), fixed for a run
    fs,        \* regular files of the tree: path -> content
    dirs,      \* directories that exist
    fs0,       \* the files as they were when cmd_apply was entered
    dirs0,     \* the directories as they were when cmd_apply was entered
    mainpc,    \* position of cmd_apply
    need,      \* outcome of the dependency check: Unchecked, Found or the error raised
    files,     \* the sorted list of discovered source files
    queue,     \* indices of submitted futures no worker has taken yet
    task,      \* per discovered file: the state of its process_file call
    tmpdirs,   \* live tempfile.TemporaryDirectory objects: <<index, kind>>
    tmpfiles,  \* files inside them: <<index, kind, name>>
    errors,    \* cmd_apply's errors list
    ret,       \* cmd_apply's return value, NotReturned until it returns
    runs,      \* how many times the command has been started on this tree
    PRESETS,   \* the preset registry: name -> identity of an ArmorPreset object
    heap,      \* the ArmorPreset objects made so far, by identity
    armor_preset, \* identity of the per-run bundle, NoObject until it is resolved
    fix_args,  \* fix_filenames: the folder's name and the dry_run flag
    folder,    \* fix_filenames: the folder's files, name -> content
    folder0,   \* fix_filenames: the folder as process_folder found it
    renames,   \* fix_filenames: process_folder's rename list of <<src, dst>>
    staged,    \* fix_filenames: the <<tmp, dst>> pairs the first pass made
    fixi,      \* fix_filenames: how many renames the running pass has done
    fixpc,     \* fix_filenames: position of process_folder
    fixret     \* fix_filenames: process_folder's return value

vars == <<args, fs, dirs, fs0, dirs0, mainpc, need, files, queue, task,
          tmpdirs, tmpfiles, errors, ret, runs, PRESETS, heap, armor_preset,
          fix_args, folder, folder0, renames, staged, fixi, fixpc, fixret>>

\* the state of fix_filenames.process_folder, and that of the batch driver
fixvars == <<fix_args, folder, folder0, renames, staged, fixi, fixpc, fixret>>
batchvars == <<args, fs, dirs, fs0, dirs0, mainpc, need, files, queue, task,
               tmpdirs, tmpfiles, errors, ret, runs, PRESETS, heap, armor_preset>>

None == "None"

\* the values of variables that are not set yet, of the type of the values
\* they take later: no exit status, no outcome of the dependency check, and
\* the outcome None of a process_file call (no error)
NotReturned == 0 - 1
Unchecked == <<>>
Found == <<"ok">>
NoError == <<>>

-----------------------------------------------------------------------------
(* Characters, names and paths                                             *)

\* ord(c) for the characters the model uses (sorted() compares code points)
Ord(c) ==
    CASE c = "." -> 46 [] c = "/" -> 47 [] c = "2" -> 50 [] c = "M" -> 77
      [] c = "0" -> 48 [] c = "1" -> 49 [] c = "3" -> 51 [] c = "4" -> 52
      [] c = "A" -> 65 [] c = "f" -> 102
      [] c = "_" -> 95 [] c = "a" -> 97 [] c = "b" -> 98 [] c = "g" -> 103
      [] c = "m" -> 109 [] c = "o" -> 111 [] c = "p" -> 112 [] c = "s" -> 115
      [] c = "t" -> 116 [] c = "u" -> 117 [] c = "v" -> 118 [] c = "x" -> 120

\* str.lower() on one character
LowerChar(c) == IF c = "M" THEN "m" ELSE IF c = "A" THEN "a" ELSE c

\* str.lower()
Lower(s) == [k \in 1..Len(s) |-> LowerChar(s[k])]

\* str.startswith
StartsWith(s, pre) ==
    /\ Len(pre) <= Len(s)
    /\ \A k \in 1..Len(pre) : s[k] = pre[k]

\* fnmatch of "*.ogg": the name ends in .ogg
EndsWith(s, suf) ==
    /\ Len(suf) <= Len(s)
    /\ \A k \in 1..Len(suf) : s[Len(s) - Len(suf) + k] = suf[k]

RECURSIVE PathStr(_)
\* str(path) of an absolute path: "/" + "/".join(parts)
PathStr(p) ==
    IF p = <<>> THEN <<>>
    ELSE PathStr(SubSeq(p, 1, Len(p) - 1)) \o <<"/">> \o p[Len(p)]

\* Path.name
Name(p) == p[Len(p)]

\* Path.parent
Parent(p) == SubSeq(p, 1, Len(p) - 1)

\* parent / name
Join(d, n) == Append(d, n)

\* Path.relative_to(root) for a path under root
RelativeTo(p, root) == SubSeq(p, Len(root) + 1, Len(p))

\* out_dir / rel
JoinRel(d, rel) == d \o rel

\* p lies in the tree of directory d (d itself or below it), by components
IsUnder(p, d) ==
    /\ Len(d) <= Len(p)
    /\ SubSeq(p, 1, Len(d)) = d

\* every proper ancestor directory of p, as mkdir(parents=True) creates them
Ancestors(p) == {SubSeq(p, 1, k) : k \in 0..(Len(p) - 1)}

\* str comparison: s < t by code points
StrLess(s, t) ==
    \E k \in 1..(Len(t)) :
        /\ \A j \in 1..(k - 1) : j <= Len(s) /\ s[j] = t[j]
        /\ \/ k = Len(s) + 1
           \/ k <= Len(s) /\ Ord(s[k]) < Ord(t[k])

\* PurePath.__lt__: the parts are compared as lists of strings
PathLess(p, q) ==
    \E k \in 1..(Len(q)) :
        /\ \A j \in 1..(k - 1) : j <= Len(p) /\ p[j] = q[j]
        /\ \/ k = Len(p) + 1
           \/ k <= Len(p) /\ StrLess(p[k], q[k])

\* sorted(S) for a finite set of distinct paths
Sorted(S) ==
    [k \in 1..Cardinality(S) |->
        CHOOSE x \in S : Cardinality({y \in S : PathLess(y, x)}) = k - 1]

PfxM   == <<"m", "_">>
PfxTmp == <<".", "t", "m", "p", "_">>
SufOgg == <<".", "o", "g", "g">>

-----------------------------------------------------------------------------
(* The file tree                                                           *)

\* the file system after writing content c to path p
Put(f, p, c) == [q \in (DOMAIN f) \cup {p} |-> IF q = p THEN c ELSE f[q]]

\* the file system after unlinking p (missing_ok)
Del(f, p) == [q \in (DOMAIN f) \ {p} |-> f[q]]

\* Path.exists()
Exists(p) == p \in DOMAIN fs \/ p \in dirs

\* the directories a tree of files implies
DirsOf(paths) == UNION {Ancestors(p) : p \in paths}

\* the content of a file that was there before the run
Orig(p) == <<"orig", p>>

\* a tree of files as the run finds it
TreeFs(paths) == [p \in paths |-> Orig(p)]

-----------------------------------------------------------------------------
(* Floats                                                                  *)

\* a float is a finite value counted in thousandths, a NaN or an infinity
\* with its sign; an option that was not given is NoValue (None in Python)
Milli == 10 * 10 * 10
Fin(v) == <<"fin", v>>
Dec(units, thousandths) == Fin(units * Milli + thousandths)
NaN == <<"nan", 0>>
Inf == <<"inf", 1>>
NegInf == <<"inf", 0 - 1>>
NoValue == <<"none", 0>>
ZeroDivisionError == <<"ZeroDivisionError", 0>>
Zero == Fin(0)
One == Fin(Milli)

IsFin(x) == x[1] = "fin"
IsNaN(x) == x[1] = "nan"
IsInf(x) == x[1] = "inf"
Sign(x) == IF x[2] > 0 THEN 1 ELSE IF x[2] < 0 THEN 0 - 1 ELSE 0

\* x < y: false as soon as one side is a NaN
Lt(x, y) ==
    CASE IsNaN(x) \/ IsNaN(y) -> FALSE
      [] IsInf(x) /\ IsFin(y) -> x[2] < 0
      [] IsFin(x) /\ IsInf(y) -> y[2] > 0
      [] OTHER                -> x[2] < y[2]

\* x * y; the products the model forms are whole thousandths
Mul(x, y) ==
    CASE IsNaN(x) \/ IsNaN(y) -> NaN
      [] IsFin(x) /\ IsFin(y) -> Fin((x[2] * y[2]) \div Milli)
      [] OTHER -> IF Sign(x) * Sign(y) = 0 THEN NaN
                  ELSE <<"inf", Sign(x) * Sign(y)>>

\* x - y
Sub(x, y) ==
    CASE IsNaN(x) \/ IsNaN(y) -> NaN
      [] IsFin(x) /\ IsFin(y) -> Fin(x[2] - y[2])
      [] IsInf(x) /\ IsInf(y) -> IF x[2] = y[2] THEN NaN ELSE x
      [] IsInf(x)             -> x
      [] OTHER                -> <<"inf", 0 - y[2]>>

\* x / y of a finite x: Python raises on a zero divisor; a finite quotient is
\* kept to the nearest thousandth, the resolution of the "{:.3f}" the period
\* is passed to sox with
Div(x, y) ==
    CASE IsNaN(y) -> NaN
      [] IsInf(y) -> Zero
      [] y[2] = 0 -> ZeroDivisionError
      [] y[2] > 0 -> Fin((2 * x[2] * Milli + y[2]) \div (2 * y[2]))
      [] OTHER    -> Fin(0 - ((2 * x[2] * Milli - y[2]) \div (0 - 2 * y[2])))

\* min(a, b) and max(a, b) of Python: the first argument unless the second
\* compares smaller (greater)
PyMin(a, b) == IF Lt(b, a) THEN b ELSE a
PyMax(a, b) == IF Lt(a, b) THEN b ELSE a

\* a clamp without its lower bound
Clamp01NoFloor(x) == PyMin(One, x)

\* _clamp01
Clamp01(x) == PyMax(Zero, PyMin(One, x))

\* a period that divides whatever the frequency is
CombMsUnguarded(hz) == Div(Dec(1000, 0), hz)

\* _comb_ms: the comb period in milliseconds
CombMs(hz) == IF Lt(Zero, hz) THEN Div(Dec(1000, 0), hz) ELSE Dec(5, 0)

-----------------------------------------------------------------------------
(* Armor presets                                                           *)

\* ArmorPreset.ogg_quality of a preset: 5 by default, 6 for "heavy"
OggQuality(preset) == IF preset = "heavy" THEN 6 ELSE 5

\* ArmorPreset(): the field defaults of the dataclass
ArmorPreset ==
    [wet |-> Dec(0, 300), wet_gain |-> Dec(1, 0),
     hipass |-> 240, lopass |-> 7200, inner_lp |-> 3600,
     comb_hz |-> Dec(220, 0), comb_decay |-> Dec(0, 180),
     slap_ms |-> Dec(7, 0), slap_decay |-> Dec(0, 100),
     eq1_f |-> 900, eq1_w |-> "1.2q", eq1_g |-> Dec(3, 0),
     eq2_f |-> 2400, eq2_w |-> "1.0q", eq2_g |-> Dec(2, 200),
     headroom_db |-> Dec(1, 0), normalize |-> TRUE,
     ogg_quality |-> OggQuality("-")]

\* the fields of obj, those of changes replaced
Changed(obj, changes) ==
    [f \in DOMAIN obj |-> IF f \in DOMAIN changes THEN changes[f] ELSE obj[f]]

\* the four bundles the module builds when it is imported
Halo ==
    Changed(ArmorPreset,
            [wet |-> Dec(0, 340), comb_hz |-> Dec(235, 0), comb_decay |-> Dec(0, 200),
             lopass |-> 7200, eq1_g |-> Dec(3, 500), eq2_g |-> Dec(2, 500)])
Mild ==
    Changed(ArmorPreset,
            [wet |-> Dec(0, 240), comb_decay |-> Dec(0, 140),
             eq1_g |-> Dec(2, 0), eq2_g |-> Dec(1, 500)])
Heavy ==
    Changed(ArmorPreset,
            [wet |-> Dec(0, 550), wet_gain |-> Dec(1, 100), hipass |-> 280,
             lopass |-> 5600, inner_lp |-> 3000, comb_hz |-> Dec(250, 0),
             comb_decay |-> Dec(0, 320), slap_decay |-> Dec(0, 140),
             eq1_g |-> Dec(5, 0), eq2_g |-> Dec(3, 500),
             headroom_db |-> Dec(1, 500), ogg_quality |-> OggQuality("heavy")])
Radio ==
    Changed(ArmorPreset,
            [wet |-> Dec(0, 280), hipass |-> 500, lopass |-> 3200,
             inner_lp |-> 2200, comb_hz |-> Dec(210, 0), comb_decay |-> Dec(0, 120),
             slap_decay |-> Dec(0, 60), eq1_g |-> Dec(1, 500), eq2_g |-> Dec(1, 200)])

\* the objects alive after the import, by identity, and the registry that
\* names them: "marine" is a second name of the "halo" object
ImportedObjects == <<Halo, Mild, Heavy, Radio>>
ImportedPresets == [halo |-> 1, mild |-> 2, heavy |-> 3, radio |-> 4, marine |-> 1]
NoObject == 0

\* dataclasses.replace(obj, **changes): a new object; obj is left as it is
Replace(h, id, changes) == Append(h, Changed(h[id], changes))

\* a wet override taken as given
WetOverrideAsGiven(x) == x

\* the wet override: preset.wet = _clamp01(args.wet)
WetOverride(x) == Clamp01(x)

\* the --wet, --wet-gain, --comb-hz and --comb-decay overrides that were given
Overrides(a) ==
    <<[given |-> a.wet # NoValue,        changes |-> [wet |-> WetOverride(a.wet)]],
      [given |-> a.wet_gain # NoValue,   changes |-> [wet_gain |-> a.wet_gain]],
      [given |-> a.comb_hz # NoValue,    changes |-> [comb_hz |-> a.comb_hz]],
      [given |-> a.comb_decay # NoValue, changes |-> [comb_decay |-> a.comb_decay]]>>

\* the registry lookup PRESETS.get(args.preset, PRESETS["halo"])
Lookup(reg, name) == IF name \in DOMAIN reg THEN reg[name] ELSE reg.halo

\* a resolution that takes the registry's object as the per-run bundle and
\* writes the overrides into it
ResolvePresetInPlace(h, reg, a) ==
    LET id == Lookup(reg, a.preset)
        o  == Overrides(a)
        set(obj, k) == IF o[k].given THEN Changed(obj, o[k].changes) ELSE obj
    IN  [heap |-> [h EXCEPT ![id] = set(set(set(set(h[id], 1), 2), 3), 4)],
         preset |-> id]

\* preset = dataclasses.replace(PRESETS.get(args.preset, PRESETS["halo"]))
\* and the overrides, each a replace of the previous bundle; the per-run
\* bundle is the last object made
ResolvePreset(h, reg, a) ==
    LET o  == Overrides(a)
        step(hp, k) == IF o[k].given THEN Replace(hp, Len(hp), o[k].changes) ELSE hp
        h0 == Replace(h, Lookup(reg, a.preset), <<>>)
        h4 == step(step(step(step(h0, 1), 2), 3), 4)
    IN  [heap |-> h4, preset |-> Len(h4)]

-----------------------------------------------------------------------------
(* cmd_apply: dependency check and discovery                               *)

\* _need(primary, fallback): the binary to use, or None when it raises
Need(primaryFound, hasFallback, fallbackFound) ==
    IF primaryFound THEN "primary"
    ELSE IF hasFallback /\ fallbackFound THEN "fallback"
    ELSE None

\* raise RuntimeError(f"missing dependency: {primary!r}" ...)
MissingDependency(name) == <<"missing dependency", name>>

\* str(f.resolve()).startswith(str(out_abs))
InOutTree(f, out_abs) == StartsWith(PathStr(f), PathStr(out_abs))

\* root.rglob("*.ogg"): the files below root whose name ends in .ogg
RGlobOgg(tree, root) ==
    {f \in tree : IsUnder(f, root) /\ Len(f) > Len(root) /\ EndsWith(Name(f), SufOgg)}

\* f.name.lower().startswith("m_")
IsMuffledName(n) == StartsWith(Lower(n), PfxM)

\* f.name.startswith(".tmp_")
IsTmpName(n) == StartsWith(n, PfxTmp)

\* a discovery without the output-tree exclusion
DiscoverNoOutTree(tree, root, out_abs, in_place) ==
    {f \in RGlobOgg(tree, root) :
        /\ ~IsMuffledName(Name(f))
        /\ ~IsTmpName(Name(f))}

\* the generator of cmd_apply's sorted(...): root.rglob("*.ogg") filtered
Discover(tree, root, out_abs, in_place) ==
    {f \in RGlobOgg(tree, root) :
        /\ ~IsMuffledName(Name(f))
        /\ ~IsTmpName(Name(f))
        /\ (in_place \/ ~InOutTree(f, out_abs))}

\* a dependency check that logs the missing engine and goes on to discovery
CmdApplyNeedGoOn ==
    /\ mainpc = "need"
    /\ \E soxNg \in BOOLEAN, sox \in BOOLEAN, ffmpeg \in BOOLEAN :
         LET s == Need(soxNg, TRUE, sox)
             f == Need(ffmpeg, FALSE, FALSE)
         IN  /\ need' = IF s = None \/ f = None
                        THEN MissingDependency(IF s = None THEN "sox" ELSE "ffmpeg")
                        ELSE Found
             /\ mainpc' = "discover"
             /\ ret' = ret
    /\ UNCHANGED <<fixvars, args, runs, PRESETS, heap, armor_preset,
                   fs, dirs, fs0, dirs0, files, queue, task,
                   tmpdirs, tmpfiles, errors>>

\* try: sox_bin = _need(args.sox, "sox"); ffmpeg_bin = _need(args.ffmpeg)
\* (which of the two sox names was found changes no later step: the names
\* of the resolved binaries are not kept in the state)
CmdApplyNeed ==
    /\ mainpc = "need"
    /\ \E soxNg \in BOOLEAN, sox \in BOOLEAN, ffmpeg \in BOOLEAN :
         LET s == Need(soxNg, TRUE, sox)
             f == Need(ffmpeg, FALSE, FALSE)
         IN  IF s = None \/ f = None
             THEN /\ need' = MissingDependency(IF s = None THEN "sox" ELSE "ffmpeg")
                  /\ ret' = 1
                  /\ mainpc' = "done"
             ELSE /\ need' = Found
                  /\ mainpc' = "discover"
                  /\ ret' = ret
    /\ UNCHANGED <<fixvars, args, runs, PRESETS, heap, armor_preset,
                   fs, dirs, fs0, dirs0, files, queue, task,
                   tmpdirs, tmpfiles, errors>>

\* the per-run preset is resolved, then files = sorted(...);
\* if not files: return 0
CmdApplyDiscover ==
    /\ mainpc = "discover"
    /\ LET r == ResolvePreset(heap, PRESETS, args)
       IN  heap' = r.heap /\ armor_preset' = r.preset
    /\ LET found == Discover(DOMAIN fs, args.root, args.out_dir, args.in_place)
       IN  /\ files' = Sorted(found)
           /\ IF found = {}
              THEN ret' = 0 /\ mainpc' = "done"
              ELSE ret' = ret /\ mainpc' = "submit"
    /\ UNCHANGED <<fixvars, args, runs, PRESETS, fs, dirs, fs0, dirs0, need, queue, task,
                   tmpdirs, tmpfiles, errors>>

\* with ThreadPoolExecutor(...) as pool: futures = {pool.submit(...) for f in files}
CmdApplySubmit ==
    /\ mainpc = "submit"
    /\ queue' = [k \in 1..Len(files) |-> k]
    /\ task' = [k \in 1..Len(files) |->
                  [stage |-> "queued", step |-> "-", calls |-> <<>>, log |-> <<>>,
                   ran |-> <<>>, ok |-> {}, err |-> NoError, did |-> {},
                   collected |-> FALSE]]
    /\ errors' = <<>>
    /\ mainpc' = "collect"
    /\ UNCHANGED <<fixvars, args, runs, PRESETS, heap, armor_preset,
                   fs, dirs, fs0, dirs0, need, files, tmpdirs, tmpfiles, ret>>

-----------------------------------------------------------------------------
(* process_file: paths and the skip / dry-run policy                       *)

\* a normal output that keeps the source's name only
NormalOutFlat(a, src) == Join(a.out_dir, Name(src))

\* normal_out = cfg.out_dir / rel
NormalOutOf(a, src) == JoinRel(a.out_dir, RelativeTo(src, a.root))

\* a helmet output that goes to the mirrored tree whatever in_place says
HelmetOutMirrored(a, src) ==
    Join(Parent(NormalOutOf(a, src)), PfxM \o Name(NormalOutOf(a, src)))

\* helmet_out: beside the source when in_place, else beside normal_out
HelmetOutOf(a, src) ==
    IF a.in_place
    THEN Join(Parent(src), PfxM \o Name(src))
    ELSE Join(Parent(NormalOutOf(a, src)), PfxM \o Name(NormalOutOf(a, src)))

NormalOut(src) == NormalOutOf(args, src)

HelmetOut(src) == HelmetOutOf(args, src)

\* a skip test that looks at the normal output instead of the helmet output
ShouldSkipNormal(src) == args.skip_existing /\ Exists(NormalOut(src))

\* if cfg.skip_existing and helmet_out.exists()
ShouldSkip(src) == args.skip_existing /\ Exists(HelmetOut(src))

\* a process_file that does not look at dry_run
EnterStageNoDry(src) ==
    IF args.skip_existing /\ Exists(HelmetOut(src)) THEN "returned"
    ELSE IF ~args.helmet_only THEN "normal"
    ELSE "armor"

\* a process_file that runs the normal pass whatever helmet_only says
EnterStageWithNormal(src) ==
    IF ShouldSkip(src) THEN "returned"
    ELSE IF args.dry_run THEN "returned"
    ELSE "normal"

\* where process_file goes after resolving its paths
EnterStage(src) ==
    IF ShouldSkip(src) THEN "returned"
    ELSE IF args.dry_run THEN "returned"
    ELSE IF ~args.helmet_only THEN "normal"
    ELSE "armor"

\* the first step of a stage
FirstStep(stage) ==
    CASE stage = "normal" -> "v1"
      [] stage = "armor"  -> "decode"
      [] stage = "helmet" -> "v1"
      [] OTHER            -> "-"

\* the futures a pool thread is running
Running == {k \in DOMAIN task : task[k].stage \notin {"queued", "returned"}}

\* a pool that starts a thread for every submitted future
PoolUnbounded == TRUE

\* a pool none of whose threads ever takes a future
PoolNeverFree == FALSE

\* ThreadPoolExecutor(max_workers=args.jobs): a thread of the pool is free
PoolHasFreeThread == Cardinality(Running) < args.jobs

\* a pool thread takes the next future and runs process_file up to its
\* first external process
ProcessFileEnter(i) ==
    /\ mainpc = "collect"
    /\ queue # <<>> /\ Head(queue) = i
    /\ PoolHasFreeThread
    /\ queue' = Tail(queue)
    /\ LET st == EnterStage(files[i])
       IN  task' = [task EXCEPT ![i].stage = st, ![i].step = FirstStep(st)]
    /\ UNCHANGED <<fixvars, args, runs, PRESETS, heap, armor_preset,
                   fs, dirs, fs0, dirs0, mainpc, need, files,
                   tmpdirs, tmpfiles, errors, ret>>

-----------------------------------------------------------------------------
(* _build_af: the loudness filter expression                               *)

\* A filter expression is the sequence of its comma-separated stages; a stage
\* "name=k=v:k=v" is its name and its parameters in order. No parameter text
\* holds a comma, so af.split(",") gives back the stages, and the ladder's
\* startswith("alimiter=") and startswith("loudnorm") are tests of the name.
Stage(name, params) == [name |-> name, params |-> params]

\* a parameter value that is a word, not a number
Sym(w) == <<w, 0>>

\* one RESTORE_CHAINS entry: highpass, afftdn, highshelf, aexciter, deesser
Chain(hp, nr, nf, shelf, g, amount, drive, freq, i, m, f) ==
    <<Stage("highpass",  <<<<"f", hp>>>>),
      Stage("afftdn",    <<<<"nr", nr>>, <<"nf", nf>>, <<"nt", Sym("w")>>>>),
      Stage("highshelf", <<<<"f", shelf>>, <<"g", g>>>>),
      Stage("aexciter",  <<<<"amount", amount>>, <<"drive", drive>>, <<"freq", freq>>,
                           <<"ceil", Dec(16000, 0)>>, <<"blend", Zero>>,
                           <<"level_in", One>>, <<"level_out", One>>>>),
      Stage("deesser",   <<<<"i", i>>, <<"m", m>>, <<"f", f>>>>)>>

RESTORE_CHAINS ==
    [mild   |-> Chain(Dec(70, 0), Dec(5, 0), Dec(0 - 45, 0), Dec(3500, 0), Dec(2, 0),
                      Dec(0, 350), Dec(2, 0), Dec(6000, 0),
                      Dec(0, 120), Dec(0, 350), Dec(0, 600)),
     medium |-> Chain(Dec(70, 0), Dec(7, 0), Dec(0 - 45, 0), Dec(3200, 0), Dec(3, 0),
                      Dec(0, 500), Dec(2, 200), Dec(5800, 0),
                      Dec(0, 160), Dec(0, 450), Dec(0, 550)),
     strong |-> Chain(Dec(80, 0), Dec(9, 0), Dec(0 - 44, 0), Dec(3000, 0), Dec(4, 0),
                      Dec(0, 700), Dec(2, 500), Dec(5500, 0),
                      Dec(0, 200), Dec(0, 550), Dec(0, 500))]

\* a lookup that gives the default chain whatever the strength
RestoreChainDefault(strength) == RESTORE_CHAINS.mild

\* RESTORE_CHAINS.get(strength, RESTORE_CHAINS['mild'])
RestoreChain(strength) ==
    IF strength \in DOMAIN RESTORE_CHAINS THEN RESTORE_CHAINS[strength]
    ELSE RESTORE_CHAINS.mild

\* a trim that is added for a positive gain only
VolumeTrimPositive(gain_db) ==
    IF Lt(Zero, gain_db)
    THEN <<Stage("volume", <<<<"volume", gain_db>>>>)>> ELSE <<>>

\* vol = "" if gain_db == 0.0 else f",volume={gain_db:+g}dB"
VolumeTrim(gain_db) ==
    IF gain_db = Zero THEN <<>> ELSE <<Stage("volume", <<<<"volume", gain_db>>>>)>>

\* ln: the loudness-normalization stage
Loudnorm(target_lufs, true_peak, lra, linear) ==
    Stage("loudnorm", <<<<"I", target_lufs>>, <<"TP", true_peak>>, <<"LRA", lra>>,
                        <<"linear", Sym(IF linear THEN "true" ELSE "false")>>>>)

\* an expression whose limiter comes before the trim
BuildAfLimiterFirst(target_lufs, true_peak, lra, linear, limit, gain_db, restore, strength) ==
    (IF restore THEN RestoreChain(strength) ELSE <<>>)
        \o <<Loudnorm(target_lufs, true_peak, lra, linear)>>
        \o <<Stage("alimiter", <<<<"limit", limit>>>>)>>
        \o VolumeTrim(gain_db)

\* _build_af
BuildAf(target_lufs, true_peak, lra, linear, limit, gain_db, restore, strength) ==
    LET ln   == Loudnorm(target_lufs, true_peak, lra, linear)
        base == IF restore THEN RestoreChain(strength) \o <<ln>> ELSE <<ln>>
    IN  base \o VolumeTrim(gain_db) \o <<Stage("alimiter", <<<<"limit", limit>>>>)>>

\* a restore check that holds for every mode but "none"
ShouldRestoreAny(mode, which) == mode # "none"

\* _should_restore
ShouldRestore(mode, which) == mode \in {"both"} \/ mode = which

\* af_n and af_h of process_file: the expression of the "normal" and of the
\* "helmet" render
AfOf(a, which) ==
    BuildAf(a.lufs, a.tp, a.lra, ~a.nonlinear, a.limit,
            IF which = "normal" THEN a.normal_db ELSE a.helmet_db,
            ShouldRestore(a.restore, which), a.restore_strength)

-----------------------------------------------------------------------------
(* _render_ffmpeg: the loudness render and its fallback ladder             *)

\* a render that lets ffmpeg write the destination itself
RenderTmpIsDst(dst) == dst

\* tmp = dst.parent / f".tmp_{dst.name}.ogg"
RenderTmp(dst) == Join(Parent(dst), PfxTmp \o Name(dst) \o SufOgg)

\* the destination of the render a task is in
RenderDst(i) ==
    IF task[i].stage = "normal" THEN NormalOut(files[i]) ELSE HelmetOut(files[i])

\* what a completed ffmpeg run leaves in its output file
Rendered(src, stage) == <<"render", src, stage>>

\* what a failed ffmpeg run may leave in its output file
Partial(src, stage) == <<"partial", src, stage>>

\* a ladder that goes from the full chain straight to loudnorm-only
LadderNextSkip(step, rc) ==
    IF rc = 0 THEN "replace"
    ELSE CASE step = "v1" -> "v3"
           [] step = "v2" -> "v3"
           [] step = "v3" -> "raise"

\* the ladder: full chain, then without alimiter, then loudnorm onward;
\* the first zero exit goes to tmp.replace(dst), exhaustion raises
LadderNext(step, rc) ==
    IF rc = 0 THEN "replace"
    ELSE CASE step = "v1" -> "v2"
           [] step = "v2" -> "v3"
           [] step = "v3" -> "raise"

\* af2: the expression without its alimiter stages
DropLimiter(af) == SelectSeq(af, LAMBDA s : s.name # "alimiter")

\* the stages a search for the first loudnorm stage finds
LoudnormAt(parts) == {k \in DOMAIN parts : parts[k].name = "loudnorm"}

\* a truncation that keeps every stage
LoudnormOnwardAll(parts) == parts

\* tail: parts from the first loudnorm stage on
LoudnormOnward(parts) ==
    LET k == CHOOSE j \in LoudnormAt(parts) : \A l \in LoudnormAt(parts) : j <= l
    IN  SubSeq(parts, k, Len(parts))

\* the third variant cannot be built: the search for a loudnorm stage finds
\* nothing and indexing its first result raises IndexError
NoLoudnorm(af, step) == step = "v3" /\ LoudnormAt(DropLimiter(af)) = {}

\* log.warning("restore chain failed; using loudnorm-only for %s", dst.name),
\* emitted before the third variant is run and before no other
WarningsBefore(step, dst) ==
    IF step = "v3"
    THEN <<<<"restore chain failed; using loudnorm-only", Name(dst)>>>> ELSE <<>>

\* the expression a rung of the ladder passes to ffmpeg
AfVariant(af, step) ==
    CASE step = "v1" -> af
      [] step = "v2" -> DropLimiter(af)
      [] step = "v3" -> LoudnormOnward(DropLimiter(af))

\* _run(..., check=False) / _run(...): one external process and its exit
\* status; a task keeps the calls of the fallback ladder it is in
Call(tool, op, rc) == [tool |-> tool, op |-> op, rc |-> rc]

\* one ffmpeg process of a render, with the expression it is given
RenderCall(stage, step, rc) ==
    [tool |-> "ffmpeg", op |-> step, rc |-> rc,
     af |-> AfVariant(AfOf(args, stage), step)]

\* the exception _run raises for a non-zero exit when check is true
CommandFailed(tool, op, target) == <<"command failed", tool, op, target>>

\* an except clause that leaves the temporary file behind
RenderCleanupNone(f, tmp) == f

\* the files after the except clause: tmp.unlink(missing_ok=True)
RenderCleanup(f, tmp) == Del(f, tmp)

\* an error outcome that names the source path instead of the relative path
CaughtAbsolute(src, exc) == <<src, exc>>

\* except Exception as exc: return f"{rel}: {exc}" -- the outcome is the
\* relative path and the cause
Caught(src, exc) == <<RelativeTo(src, args.root), exc>>

\* a pipeline that carries on with the armor pass after a failed normal render
RaiseTargetContinue(stage) == IF stage = "normal" THEN "armor" ELSE "returned"

\* where a task goes when a stage raised: process_file's except returns
RaiseTarget(stage) == "returned"

\* the task record after an exception raised inside the try block has
\* reached process_file's except clause
Raised(t, src, exc) ==
    [t EXCEPT !.stage = RaiseTarget(t.stage),
              !.step = FirstStep(RaiseTarget(t.stage)),
              !.calls = <<>>,
              !.log = <<>>,
              !.err = Caught(src, exc)]

\* with-blocks that leave their directories behind
DropTempNone(S, i) == S

\* leaving the with-blocks of a task: its temporary directories are removed
DropTemp(S, i) == {x \in S : x[1] # i}

\* one rung: (mkdir before the first, the truncation and the warning before
\* the third,) run ffmpeg writing tmp, look at the status; a non-zero status
\* of the last rung, or a truncation that finds no loudnorm stage, raises:
\* the except clause unlinks tmp and the exception ends process_file
RenderAttempt(i) ==
    /\ task[i].stage \in {"normal", "helmet"}
    /\ task[i].step \in {"v1", "v2", "v3"}
    /\ LET t   == task[i]
           dst == RenderDst(i)
           tmp == RenderTmp(dst)
       IN  IF NoLoudnorm(AfOf(args, t.stage), t.step)
           THEN /\ fs' = RenderCleanup(fs, tmp)
                /\ dirs' = dirs
                /\ tmpdirs' = DropTemp(tmpdirs, i)
                /\ tmpfiles' = DropTemp(tmpfiles, i)
                /\ task' = [task EXCEPT ![i] =
                     Raised(t, files[i], <<"IndexError", t.step, tmp>>)]
           ELSE
           \E rc \in {0, 1}, wrote \in BOOLEAN :
             /\ rc = 0 => wrote
             /\ LET nxt == LadderNext(t.step, rc)
                    written == IF wrote
                               THEN Put(fs, tmp, IF rc = 0 THEN Rendered(files[i], t.stage)
                                                           ELSE Partial(files[i], t.stage))
                               ELSE fs
                    ran == [t EXCEPT
                              !.calls = (IF t.step = "v1" THEN <<>> ELSE t.calls)
                                        \o <<RenderCall(t.stage, t.step, rc)>>,
                              !.log = (IF t.step = "v1" THEN <<>> ELSE t.log)
                                      \o WarningsBefore(t.step, dst),
                              !.ran = IF t.step = "v1" THEN Append(t.ran, t.stage) ELSE t.ran,
                              !.step = nxt,
                              !.did = t.did \cup {"proc"}
                                      \cup (IF t.step = "v1" THEN {"mkdir"} ELSE {})
                                      \cup (IF wrote THEN {"write"} ELSE {})]
                IN  /\ dirs' = IF t.step = "v1" THEN dirs \cup Ancestors(dst) ELSE dirs
                    /\ IF nxt = "raise"
                       THEN /\ fs' = RenderCleanup(written, tmp)
                            /\ tmpdirs' = DropTemp(tmpdirs, i)
                            /\ tmpfiles' = DropTemp(tmpfiles, i)
                            /\ task' = [task EXCEPT ![i] =
                                 Raised(ran, files[i], CommandFailed("ffmpeg", t.step, tmp))]
                       ELSE /\ fs' = written
                            /\ UNCHANGED <<tmpdirs, tmpfiles>>
                            /\ task' = [task EXCEPT ![i] = ran]
    /\ UNCHANGED <<fixvars, args, runs, PRESETS, heap, armor_preset,
                   fs0, dirs0, mainpc, need, files, queue, errors, ret>>

\* the stage after a render that returned
AfterRender(stage) == IF stage = "normal" THEN "armor" ELSE "cleanup"

\* tmp.replace(dst): atomically moves tmp over dst and the render returns, or
\* raises OSError: the except clause unlinks tmp and the exception ends
\* process_file
RenderReplace(i) ==
    /\ task[i].stage \in {"normal", "helmet"}
    /\ task[i].step = "replace"
    /\ LET t   == task[i]
           dst == RenderDst(i)
           tmp == RenderTmp(dst)
       IN  \E ok \in BOOLEAN :
             /\ ok => dst \notin dirs
             /\ IF ok
                THEN /\ fs' = Del(Put(fs, dst, fs[tmp]), tmp)
                     /\ UNCHANGED <<tmpdirs, tmpfiles>>
                     /\ task' = [task EXCEPT
                          ![i].stage = AfterRender(t.stage),
                          ![i].step = FirstStep(AfterRender(t.stage)),
                          ![i].ok = t.ok \cup {t.stage},
                          ![i].did = t.did \cup {"write"}]
                ELSE /\ fs' = RenderCleanup(fs, tmp)
                     /\ tmpdirs' = DropTemp(tmpdirs, i)
                     /\ tmpfiles' = DropTemp(tmpfiles, i)
                     /\ task' = [task EXCEPT ![i] =
                          Raised(t, files[i], <<"OSError", "replace", dst>>)]
    /\ UNCHANGED <<fixvars, args, runs, PRESETS, heap, armor_preset,
                   dirs, fs0, dirs0, mainpc, need, files, queue, errors, ret>>

-----------------------------------------------------------------------------
(* apply_armorfx: decode, wet chain, mix, gain, encode in temporary files  *)

\* an armor pass whose decode has no second engine
ArmorNextNoDecodeFallback(step, rc) ==
    IF rc = 0
    THEN CASE step = "decode"  -> "wet"
           [] step = "decode2" -> "wet"
           [] step = "wet"     -> "mix"
           [] step = "mix"     -> "gain"
           [] step = "gain"    -> "encode"
           [] step = "encode"  -> "done"
           [] step = "encode2" -> "done"
    ELSE CASE step = "encode"  -> "encode2"
           [] OTHER            -> "raise"

\* an armor pass that goes on to the gain step after a failed mix
ArmorNextMixUnchecked(step, rc) ==
    IF rc = 0
    THEN CASE step = "decode"  -> "wet"
           [] step = "decode2" -> "wet"
           [] step = "wet"     -> "mix"
           [] step = "mix"     -> "gain"
           [] step = "gain"    -> "encode"
           [] step = "encode"  -> "done"
           [] step = "encode2" -> "done"
    ELSE CASE step = "decode"  -> "decode2"
           [] step = "encode"  -> "encode2"
           [] step = "mix"     -> "gain"
           [] OTHER            -> "raise"

\* the step after an armor step, by its exit status; decode and encode fall
\* back to ffmpeg, every other non-zero exit raises
ArmorNext(step, rc) ==
    IF rc = 0
    THEN CASE step = "decode"  -> "wet"
           [] step = "decode2" -> "wet"
           [] step = "wet"     -> "mix"
           [] step = "mix"     -> "gain"
           [] step = "gain"    -> "encode"
           [] step = "encode"  -> "done"
           [] step = "encode2" -> "done"
    ELSE CASE step = "decode"  -> "decode2"
           [] step = "encode"  -> "encode2"
           [] OTHER            -> "raise"

\* the quality argument of an encode call: sox gets "-C", str(quality),
\* ffmpeg gets "-q:a", "5"
EncodeQuality(step, quality) == IF step = "encode" THEN quality ELSE 5

\* a dry level that is not tied to the wet level
DryLevelFixed(p) == Sub(One, p.wet)

\* wet = _clamp01(p.wet * p.wet_gain); dry_level = 1.0 - wet
WetLevel(p) == Clamp01(Mul(p.wet, p.wet_gain))
DryLevel(p) == Sub(One, WetLevel(p))

\* the invocation an armor step makes; an encode carries its quality argument,
\* the wet chain its comb period and decay, the mix its two levels
ArmorCall(step, tool, rc) ==
    LET p == heap[armor_preset]
    IN  CASE step \in {"encode", "encode2"} ->
               [tool |-> tool, op |-> step, rc |-> rc,
                q |-> EncodeQuality(step, p.ogg_quality)]
          [] step = "wet" ->
               [tool |-> tool, op |-> step, rc |-> rc,
                comb_ms |-> CombMs(p.comb_hz), comb_decay |-> p.comb_decay]
          [] step = "mix" ->
               [tool |-> tool, op |-> step, rc |-> rc,
                dry |-> DryLevel(p), wet |-> WetLevel(p)]
          [] OTHER -> Call(tool, step, rc)

\* the engine an armor step runs
ArmorTool(step) == IF step \in {"decode2", "encode2"} THEN "ffmpeg" ELSE "sox"

\* the transient file an armor step writes
ArmorOutput(i, step) ==
    CASE step \in {"decode", "decode2"} -> <<i, "fx", "dry">>
      [] step = "wet"                   -> <<i, "fx", "wet">>
      [] step = "mix"                   -> <<i, "fx", "mix">>
      [] step = "gain"                  -> <<i, "fx", "final">>
      [] step \in {"encode", "encode2"} -> <<i, "batch", "raw">>

\* one external process of the armor pass; the first one is preceded by the
\* creation of both temporary directories, the last successful one is
\* followed by the removal of apply_armorfx's own; a non-zero status without
\* a fallback raises: both with-blocks are left and process_file ends
ArmorStep(i) ==
    /\ task[i].stage = "armor"
    /\ task[i].step \in {"decode", "decode2", "wet", "mix", "gain", "encode", "encode2"}
    /\ LET t   == task[i]
           out == ArmorOutput(i, t.step)
       IN  \E rc \in {0, 1}, wrote \in BOOLEAN :
             /\ rc = 0 => wrote
             /\ LET nxt  == ArmorNext(t.step, rc)
                    made == (tmpfiles \cup (IF wrote THEN {out} ELSE {}))
                    ran  == [t EXCEPT
                               !.calls = (IF t.step \in {"decode2", "encode2"}
                                          THEN t.calls ELSE <<>>)
                                         \o <<ArmorCall(t.step, ArmorTool(t.step), rc)>>,
                               !.log = <<>>,
                               !.ran = IF t.step = "decode" THEN Append(t.ran, "armor")
                                       ELSE t.ran,
                               !.ok = IF nxt = "done" THEN t.ok \cup {"armor"} ELSE t.ok,
                               !.stage = IF nxt = "done" THEN "helmet" ELSE "armor",
                               !.step = IF nxt = "done" THEN FirstStep("helmet") ELSE nxt,
                               !.did = t.did \cup {"proc", "mkdir"}]
                IN  CASE nxt = "raise" ->
                           /\ tmpdirs' = DropTemp(tmpdirs, i)
                           /\ tmpfiles' = DropTemp(tmpfiles, i)
                           /\ task' = [task EXCEPT ![i] =
                                Raised(ran, files[i],
                                       CommandFailed(ArmorTool(t.step), t.step, out))]
                       [] nxt = "done" ->
                           /\ tmpdirs' = (tmpdirs \cup {<<i, "batch">>}) \ {<<i, "fx">>}
                           /\ tmpfiles' = {x \in made : ~(x[1] = i /\ x[2] = "fx")}
                           /\ task' = [task EXCEPT ![i] = ran]
                       [] OTHER ->
                           /\ tmpdirs' = tmpdirs \cup {<<i, "batch">>, <<i, "fx">>}
                           /\ tmpfiles' = made
                           /\ task' = [task EXCEPT ![i] = ran]
    /\ UNCHANGED <<fixvars, args, runs, PRESETS, heap, armor_preset,
                   fs, dirs, fs0, dirs0, mainpc, need, files, queue, errors, ret>>

\* the helmet render returned: leave the with-block, log ok, return None
ProcessFileReturn(i) ==
    /\ task[i].stage = "cleanup"
    /\ tmpdirs' = DropTemp(tmpdirs, i)
    /\ tmpfiles' = DropTemp(tmpfiles, i)
    /\ task' = [task EXCEPT ![i].stage = "returned", ![i].step = "-",
                            ![i].calls = <<>>, ![i].log = <<>>,
                            ![i].err = NoError]
    /\ UNCHANGED <<fixvars, args, runs, PRESETS, heap, armor_preset,
                   fs, dirs, fs0, dirs0, mainpc, need, files, queue, errors, ret>>

-----------------------------------------------------------------------------
(* cmd_apply: collecting the outcomes                                      *)

\* a collection that keeps the first error only
CollectedFirst(errs, err) == IF err # NoError /\ errs = <<>> THEN <<err>> ELSE errs

\* a collection that records an error twice
CollectedTwice(errs, err) == IF err # NoError THEN errs \o <<err, err>> ELSE errs

\* if err: errors.append(err)
Collected(errs, err) == IF err # NoError THEN Append(errs, err) ELSE errs

\* an exit status that ignores the errors
ExitStatusZero(errs) == 0

\* return 1 if errors else 0
ExitStatus(errs) == IF errs # <<>> THEN 1 ELSE 0

\* for fut in as_completed(futures): err = fut.result(); ...
CmdApplyCollect(i) ==
    /\ mainpc = "collect"
    /\ task[i].stage = "returned"
    /\ ~task[i].collected
    /\ task' = [task EXCEPT ![i].collected = TRUE]
    /\ errors' = Collected(errors, task[i].err)
    /\ UNCHANGED <<fixvars, args, runs, PRESETS, heap, armor_preset,
                   fs, dirs, fs0, dirs0, mainpc, need, files, queue,
                   tmpdirs, tmpfiles, ret>>

\* every future was yielded: leave the pool, log the summary, return
CmdApplyReturn ==
    /\ mainpc = "collect"
    /\ \A k \in DOMAIN task : task[k].collected
    /\ ret' = ExitStatus(errors)
    /\ mainpc' = "done"
    /\ UNCHANGED <<fixvars, args, runs, PRESETS, heap, armor_preset,
                   fs, dirs, fs0, dirs0, need, files, queue, task,
                   tmpdirs, tmpfiles, errors>>

-----------------------------------------------------------------------------
(* Bounds and the inputs of a run                                          *)

MaxFiles == 2    \* source files in the tree of a batch run
MaxJobs  == 2    \* --jobs
MaxTree  == 4    \* files in a tree handed to discovery alone

nA    == <<"a", ".", "o", "g", "g">>
nB    == <<"b", ".", "o", "g", "g">>
nX    == <<"x", ".", "o", "g", "g">>
nV    == <<"v">>
nS    == <<"s">>
nOut  == <<"o", "u", "t">>
nOut2 == <<"o", "u", "t", "2">>

Root   == <<nV>>
OutIn  == <<nV, nOut>>       \* an output directory inside the scan root
OutOff == <<nX>>             \* an output directory outside the scan root

\* the source files a batch run may find, in the order they are added
SourceList == <<Join(Root, nA), <<nV, nS, nB>>, Join(Root, nX)>>

Sources(k) == {SourceList[j] : j \in 1..(IF k < Len(SourceList) THEN k ELSE Len(SourceList))}

\* --preset: choices=[k for k in PRESETS if k != "marine"], default "halo"
PresetNames == {"halo", "mild", "heavy", "radio"}

\* the options build_parser gives a command line that names none of them
DefaultOptions ==
    [wet |-> NoValue, wet_gain |-> NoValue, comb_hz |-> NoValue, comb_decay |-> NoValue,
     lufs |-> Dec(0 - 16, 0), tp |-> Dec(0 - 2, 0), lra |-> Dec(11, 0),
     nonlinear |-> FALSE, oggq |-> 6, limit |-> Dec(0, 850),
     restore |-> "none", restore_strength |-> "mild",
     normal_db |-> Zero, helmet_db |-> Zero]

\* command lines that leave the remaining options at their defaults
WithDefaults(S) == {a @@ DefaultOptions : a \in S}

\* the command lines of a batch run
BatchArgs ==
    WithDefaults(
    [root : {Root}, out_dir : {OutIn}, jobs : 1..MaxJobs,
     dry_run : BOOLEAN, skip_existing : BOOLEAN,
     in_place : BOOLEAN, helmet_only : BOOLEAN, preset : PresetNames])

\* what an earlier run may have left for the first source: its helmet
\* output, and a stale temporary file of that output's render
Leftovers(a) ==
    LET h == HelmetOutOf(a, SourceList[1])
    IN  {{}, {h}, {h, RenderTmp(h)}}

\* the runs explored: every flag combination on trees of at most one source
\* and in dry-run mode; on larger trees the mirrored two-output run, with
\* skip-if-exists exactly when an earlier run left something; a preset other
\* than the default on the helmet-only run over one source
Explored(a, k, left) ==
    /\ \/ k <= 1
       \/ a.dry_run
       \/ /\ ~a.in_place /\ ~a.helmet_only
          /\ a.skip_existing <=> left # {}
    /\ \/ a.preset = "halo"
       \/ /\ k = 1 /\ left = {} /\ a.jobs = 1
          /\ a.helmet_only /\ ~a.dry_run /\ ~a.skip_existing /\ ~a.in_place

\* the batch driver's state at position pc of cmd_apply
BatchAt(a, tree, pc, nd) ==
    /\ args = a
    /\ fs = TreeFs(tree)
    /\ dirs = DirsOf(tree) \cup {Root} \cup Ancestors(Root)
    /\ fs0 = fs
    /\ dirs0 = dirs
    /\ mainpc = pc
    /\ need = nd
    /\ files = <<>>
    /\ queue = <<>>
    /\ task = <<>>
    /\ tmpdirs = {}
    /\ tmpfiles = {}
    /\ errors = <<>>
    /\ ret = NotReturned
    /\ runs = 1
    /\ PRESETS = ImportedPresets
    /\ heap = ImportedObjects
    /\ armor_preset = NoObject

\* fix_filenames is a separate script: it is not running during a batch
FixIdle ==
    /\ fix_args = [folder_name |-> <<>>, dry_run |-> FALSE]
    /\ folder = <<>>
    /\ folder0 = <<>>
    /\ renames = <<>>
    /\ staged = <<>>
    /\ fixi = 0
    /\ fixpc = "idle"
    /\ fixret = NotReturned

InitAt(a, tree, pc, nd) == BatchAt(a, tree, pc, nd) /\ FixIdle

\* a run as cmd_apply is entered
InitRun(a, tree) == InitAt(a, tree, "need", Unchecked)

Init ==
    \E a \in BatchArgs, k \in 0..MaxFiles :
        \E left \in Leftovers(a) :
            /\ Explored(a, k, left)
            /\ InitRun(a, Sources(k) \cup (IF k = 0 THEN {} ELSE left))

Next ==
    \/ CmdApplyNeed
    \/ CmdApplyDiscover
    \/ CmdApplySubmit
    \/ \E i \in DOMAIN task : ProcessFileEnter(i)
    \/ \E i \in DOMAIN task : RenderAttempt(i)
    \/ \E i \in DOMAIN task : RenderReplace(i)
    \/ \E i \in DOMAIN task : ArmorStep(i)
    \/ \E i \in DOMAIN task : ProcessFileReturn(i)
    \/ \E i \in DOMAIN task : CmdApplyCollect(i)
    \/ CmdApplyReturn

\* a batch run of cmd_apply
Spec == Init /\ [][Next]_vars

\* the position of cmd_apply and of every process_file call; every step of
\* Next changes it
Positions ==
    <<mainpc, queue,
      [i \in DOMAIN task |-> <<task[i].stage, task[i].step, task[i].collected>>]>>

\* the runs whose completion is explored: those of Init, trees of more than
\* two sources with one worker thread only
FairInit ==
    \E a \in BatchArgs, k \in 0..MaxFiles :
        \E left \in Leftovers(a) :
            /\ Explored(a, k, left)
            /\ (k <= 2 \/ a.jobs = 1)
            /\ InitRun(a, Sources(k) \cup (IF k = 0 THEN {} ELSE left))

\* a batch run in which a step that can be taken is eventually taken: the
\* interpreter schedules its threads and every external process terminates
FairSpec == FairInit /\ [][Next]_vars /\ WF_Positions(Next)

-----------------------------------------------------------------------------
(* Discovery alone, on every small tree                                    *)

nMA    == PfxM \o nA
nUpMA  == <<"M", "_">> \o nA
nTmpA  == PfxTmp \o nA
nOutOgg == nOut \o SufOgg
nTxt   == <<"a">>

\* the files a tree handed to discovery may hold
TreeCandidates ==
    {Join(Root, nA), Join(Root, nMA), Join(Root, nTmpA), Join(Root, nUpMA),
     Join(Root, nOutOgg), Join(Root, nTxt),
     <<nV, nOut, nA>>, <<nV, nOut2, nA>>, <<nV, nS, nB>>, <<nX, nA>>}

DiscoverArgs ==
    WithDefaults(
    [root : {Root}, out_dir : {OutIn, OutOff}, jobs : {1},
     dry_run : {FALSE}, skip_existing : {FALSE},
     in_place : BOOLEAN, helmet_only : {FALSE}, preset : {"halo"}])

InitDiscover ==
    \E a \in DiscoverArgs, tree \in SUBSET TreeCandidates :
        /\ Cardinality(tree) <= MaxTree
        /\ InitAt(a, tree, "discover", Found)

NextDiscover == CmdApplyDiscover

\* cmd_apply's discovery applied to a tree
SpecDiscover == InitDiscover /\ [][NextDiscover]_vars

-----------------------------------------------------------------------------
(* The same command started again on the tree the previous run left        *)

MaxRuns == 3     \* successive runs of the command on one tree

\* main() is entered again after a run that returned 0: the tree is what the
\* run left, the command line is the same with --skip-existing set, and the
\* new process imports the module, which builds the registry anew
CmdApplyAgain ==
    /\ mainpc = "done"
    /\ ret = 0
    /\ runs < MaxRuns
    /\ runs' = runs + 1
    /\ args' = [args EXCEPT !.skip_existing = TRUE]
    /\ fs0' = fs
    /\ dirs0' = dirs
    /\ mainpc' = "need"
    /\ need' = Unchecked
    /\ files' = <<>>
    /\ queue' = <<>>
    /\ task' = <<>>
    /\ errors' = <<>>
    /\ ret' = NotReturned
    /\ PRESETS' = ImportedPresets
    /\ heap' = ImportedObjects
    /\ armor_preset' = NoObject
    /\ UNCHANGED <<fixvars, fs, dirs, tmpdirs, tmpfiles>>

\* the command lines of a repeated run: mirrored or write-in-place, output
\* directory inside or outside the scan root, helmet-only or not
RerunArgs ==
    WithDefaults(
    [root : {Root}, out_dir : {OutIn, OutOff}, jobs : {1},
     dry_run : {FALSE}, skip_existing : BOOLEAN,
     in_place : BOOLEAN, helmet_only : BOOLEAN, preset : {"halo"}])

\* the trees a repeated run starts from: one source, at the root or below it
RerunTrees == {{SourceList[1]}, {SourceList[2]}}

InitRerun ==
    \E a \in RerunArgs, tree \in RerunTrees : InitRun(a, tree)

NextRerun ==
    \/ CmdApplyNeed
    \/ CmdApplyDiscover
    \/ CmdApplySubmit
    \/ \E i \in DOMAIN task : ProcessFileEnter(i)
    \/ \E i \in DOMAIN task : RenderAttempt(i)
    \/ \E i \in DOMAIN task : RenderReplace(i)
    \/ \E i \in DOMAIN task : ArmorStep(i)
    \/ \E i \in DOMAIN task : ProcessFileReturn(i)
    \/ \E i \in DOMAIN task : CmdApplyCollect(i)
    \/ CmdApplyReturn
    \/ CmdApplyAgain

\* successive runs of the command, each started after the previous returned 0
SpecRerun == InitRerun /\ [][NextRerun]_vars

-----------------------------------------------------------------------------
(* One helmet-only run under every preset and override                     *)

\* the values given to --wet, --wet-gain, --comb-hz and --comb-decay:
\* negative, zero, inside and above the unit range, not a number, infinite
WetValues == {NoValue, Dec(0 - 1, 500), Zero, Dec(0, 500), Dec(1, 500), NaN, Inf}
WetGainValues == {NoValue, Dec(0 - 1, 0), Dec(0, 500), Dec(2, 0), NaN, Inf, NegInf}
CombHzValues == {NoValue, Dec(0 - 5, 0), Zero, Dec(0, 500), Dec(220, 0), NaN, Inf}
CombDecayValues == {NoValue, Dec(0, 500), Dec(1, 500)}

PresetArgs ==
    {a @@ o @@ DefaultOptions :
        a \in [root : {Root}, out_dir : {OutIn}, jobs : {1},
               dry_run : {FALSE}, skip_existing : {FALSE},
               in_place : {FALSE}, helmet_only : {TRUE}, preset : PresetNames],
        o \in [wet : WetValues, wet_gain : WetGainValues,
               comb_hz : CombHzValues, comb_decay : CombDecayValues]}

InitPreset == \E a \in PresetArgs : InitRun(a, {SourceList[1]})

SpecPreset == InitPreset /\ [][Next]_vars

-----------------------------------------------------------------------------
(* One two-output run under every restore mode, strength and gain trim     *)

RestoreModes == {"none", "normal", "helmet", "both"}
RestoreStrengths == {"mild", "medium", "strong"}

\* the values given to --normal-db and --helmet-db
GainValues == {Zero, Dec(2, 500), Dec(0 - 3, 0), NaN}

LoudnessArgs ==
    {a @@ o @@ DefaultOptions :
        a \in [root : {Root}, out_dir : {OutIn}, jobs : {1},
               dry_run : {FALSE}, skip_existing : {FALSE},
               in_place : {FALSE}, helmet_only : {FALSE}, preset : {"halo"}],
        o \in [restore : RestoreModes, restore_strength : RestoreStrengths,
               normal_db : GainValues, helmet_db : GainValues,
               nonlinear : BOOLEAN]}

InitLoudness == \E a \in LoudnessArgs : InitRun(a, {SourceList[1]})

SpecLoudness == InitLoudness /\ [][Next]_vars

-----------------------------------------------------------------------------
(* scripts/fix_filenames.py: process_folder renames a folder's .ogg files  *)
(* to <folder>_<i>.ogg and m_<folder>_<i>.ogg in two passes                *)

\* extract_index's value for a name without a numeric suffix
NoIndex == 10 ^ 9

IsDigit(c) == c \in {"0", "1", "2", "3", "4"}

DigitVal(c) ==
    CASE c = "0" -> 0 [] c = "1" -> 1 [] c = "2" -> 2 [] c = "3" -> 3
      [] c = "4" -> 4

\* int() of a run of decimal digits
RECURSIVE IntOf(_)
IntOf(ds) ==
    IF ds = <<>> THEN 0
    ELSE 10 * IntOf(SubSeq(ds, 1, Len(ds) - 1)) + DigitVal(ds[Len(ds)])

\* str() of a rename index
Str(i) ==
    <<CASE i = 1 -> "1" [] i = 2 -> "2" [] i = 3 -> "3" [] i = 4 -> "4">>

\* Path.suffix.lower() == '.ogg': a name that is only ".ogg" has no suffix
IsOgg(name) == Len(name) > Len(SufOgg) /\ EndsWith(Lower(name), SufOgg)

\* name.lower().startswith('m_')
Muffled(name) == StartsWith(Lower(name), PfxM)

\* INDEXED_OGG = ^(m_)?(.+?)(_(\d+))?\.ogg$ with IGNORECASE, and group 4 of
\* its match: the optional m_ is taken whenever something is left for
\* group 2, and the index is the digits after the last underscore of the
\* rest, when group 2 keeps at least one character before it
ExtractIndex(filename) ==
    IF ~IsOgg(filename) THEN NoIndex
    ELSE LET body == SubSeq(filename, 1, Len(filename) - Len(SufOgg))
             rest == IF StartsWith(Lower(body), PfxM) /\ Len(body) > Len(PfxM)
                     THEN SubSeq(body, Len(PfxM) + 1, Len(body))
                     ELSE body
             cut  == {k \in 2..(Len(rest) - 1) :
                         /\ rest[k] = "_"
                         /\ \A j \in (k + 1)..Len(rest) : IsDigit(rest[j])}
         IN  IF cut = {} THEN NoIndex
             ELSE LET k == CHOOSE c \in cut : TRUE
                  IN  IntOf(SubSeq(rest, k + 1, Len(rest)))

\* the sort key (extract_index(f.name), f.name)
KeyLess(x, y) ==
    \/ ExtractIndex(x) < ExtractIndex(y)
    \/ ExtractIndex(x) = ExtractIndex(y) /\ StrLess(x, y)

\* sorted(..., key=lambda f: (extract_index(f.name), f.name))
SortedByIndex(S) ==
    [k \in 1..Cardinality(S) |->
        CHOOSE x \in S : Cardinality({y \in S : KeyLess(y, x)}) = k - 1]

\* folder / f'{folder_name}_{i}.ogg' and folder / f'm_{folder_name}_{i}.ogg'
Target(folder_name, muffled, i) ==
    (IF muffled THEN PfxM ELSE <<>>) \o folder_name \o <<"_">> \o Str(i)
        \o SufOgg

\* folder / f'__tmp_{src.name}'
PfxStage == <<"_", "_", "t", "m", "p", "_">>
StageName(name) == PfxStage \o name

\* the rename list of process_folder: both groups in sorted order, the files
\* already at their target left out
Renames(names, folder_name) ==
    LET ogg == {n \in names : IsOgg(n)}
        non == SortedByIndex({n \in ogg : ~Muffled(n)})
        muf == SortedByIndex({n \in ogg : Muffled(n)})
        all == [k \in 1..Len(non) |-> <<non[k], Target(folder_name, FALSE, k)>>]
               \o [k \in 1..Len(muf) |-> <<muf[k], Target(folder_name, TRUE, k)>>]
    IN  SelectSeq(all, LAMBDA p : p[1] # p[2])

\* Path.rename on POSIX: the destination is replaced when it exists
Rename(d, src, dst) ==
    [n \in (DOMAIN d \ {src}) \cup {dst} |-> IF n = dst THEN d[src] ELSE d[n]]

\* process_folder up to the dry_run test: nothing to rename returns 0, a dry
\* run returns the number of renames it printed
ProcessFolder ==
    /\ fixpc = "start"
    /\ LET r == Renames(DOMAIN folder, fix_args.folder_name)
       IN  /\ renames' = r
           /\ IF r = <<>>
              THEN fixpc' = "done" /\ fixret' = 0
              ELSE IF fix_args.dry_run
                   THEN fixpc' = "done" /\ fixret' = Len(r)
                   ELSE fixpc' = "pass1" /\ fixret' = fixret
    /\ UNCHANGED <<batchvars, fix_args, folder, folder0, staged, fixi>>

\* pass 1, one iteration: src.rename(tmp); staged.append((tmp, dst))
StageRename ==
    /\ fixpc = "pass1"
    /\ LET src == renames[fixi + 1][1]
           dst == renames[fixi + 1][2]
           tmp == StageName(src)
       IN  IF src \in DOMAIN folder
           THEN /\ folder' = Rename(folder, src, tmp)
                /\ staged' = Append(staged, <<tmp, dst>>)
                /\ IF fixi + 1 = Len(renames)
                   THEN fixpc' = "pass2" /\ fixi' = 0
                   ELSE fixpc' = "pass1" /\ fixi' = fixi + 1
           ELSE \* FileNotFoundError leaves process_folder
                /\ fixpc' = "raised"
                /\ UNCHANGED <<folder, staged, fixi>>
    /\ UNCHANGED <<batchvars, fix_args, folder0, renames, fixret>>

\* pass 2, one iteration: tmp.rename(dst); after the last one
\* process_folder returns len(renames)
FinalRename ==
    /\ fixpc = "pass2"
    /\ LET tmp == staged[fixi + 1][1]
           dst == staged[fixi + 1][2]
       IN  IF tmp \in DOMAIN folder
           THEN /\ folder' = Rename(folder, tmp, dst)
                /\ IF fixi + 1 = Len(staged)
                   THEN fixpc' = "done" /\ fixi' = fixi /\ fixret' = Len(renames)
                   ELSE fixpc' = "pass2" /\ fixi' = fixi + 1 /\ fixret' = fixret
           ELSE \* FileNotFoundError leaves process_folder
                /\ fixpc' = "raised"
                /\ UNCHANGED <<folder, fixi, fixret>>
    /\ UNCHANGED <<batchvars, fix_args, folder0, renames, staged>>

\* the largest folder explored
MaxFolder == 3

nF == <<"f">>
nA1 == <<"A", "_", "1", ".", "o", "g", "g">>
nA3 == <<"a", "_", "3", ".", "o", "g", "g">>
nF1 == <<"f", "_", "1", ".", "o", "g", "g">>
nF2 == <<"f", "_", "2", ".", "o", "g", "g">>
nMA3 == <<"m", "_", "a", "_", "3", ".", "o", "g", "g">>
nMF1 == <<"M", "_", "f", "_", "1", ".", "o", "g", "g">>

\* the names a folder may hold: indexed and unindexed, plain and muffled,
\* some already at their target, one that is not an .ogg file, and one
\* that has the form of a staging name
FolderNames ==
    {nA1, nA3, nF1, nF2, nMA3, nMF1, nA, nX, <<"a">>, StageName(nA1)}

Folders == {S \in SUBSET FolderNames : Cardinality(S) <= MaxFolder}

\* a file's content is identified with the name it had at the start
InitFix ==
    /\ BatchAt(CHOOSE a \in BatchArgs : TRUE, {}, "idle", Unchecked)
    /\ fix_args \in [folder_name : {nF}, dry_run : BOOLEAN]
    /\ folder \in {[n \in S |-> n] : S \in Folders}
    /\ folder0 = folder
    /\ renames = <<>>
    /\ staged = <<>>
    /\ fixi = 0
    /\ fixpc = "start"
    /\ fixret = NotReturned

NextFix ==
    \/ ProcessFolder
    \/ StageRename
    \/ FinalRename

SpecFix == InitFix /\ [][NextFix]_vars

-----------------------------------------------------------------------------
(* Properties                                                              *)

\* path p holds what it held when the run began (absent, or the same content)
SameAt(p) ==
    IF p \in DOMAIN fs0 THEN p \in DOMAIN fs /\ fs[p] = fs0[p]
    ELSE p \notin DOMAIN fs

\* the destination of file i's render of stage st
DstOf(i, st) == IF st = "normal" THEN NormalOut(files[i]) ELSE HelmetOut(files[i])

RenderStages == {"normal", "helmet"}

\* task i is inside its render of stage st, after at least one attempt
InLadder(i) ==
    /\ task[i].stage \in RenderStages
    /\ task[i].step \in {"v2", "v3", "replace"}

\* task i's render has just returned normally; its calls are still at hand
JustRendered(i) ==
    \/ task[i].stage = "armor" /\ task[i].step = "decode" /\ "normal" \in task[i].ok
    \/ task[i].stage = "cleanup"

\* the stage whose render has just returned
JustRenderedStage(i) == IF task[i].stage = "cleanup" THEN "helmet" ELSE "normal"

\* file i's outcome is the error raised by its render of stage st
RenderFailed(i, st) ==
    /\ task[i].err # NoError
    /\ \/ task[i].err[2] = CommandFailed("ffmpeg", "v3", RenderTmp(DstOf(i, st)))
       \/ task[i].err[2] = <<"OSError", "replace", DstOf(i, st)>>

\* the stage at which file i failed
FailedStage(i) ==
    IF RenderFailed(i, "normal") THEN "normal"
    ELSE IF RenderFailed(i, "helmet") THEN "helmet"
    ELSE "armor"

Variants == <<"v1", "v2", "v3">>

\* the ladder as the calls of a render in progress, or just returned, show it
C1_Ladder ==
    \A i \in DOMAIN task :
        (InLadder(i) \/ JustRendered(i)) =>
            LET t == task[i]
                c == t.calls
                n == Len(c)
            IN  /\ n \in 1..3
                /\ \A k \in 1..n : c[k].op = Variants[k] /\ c[k].tool = "ffmpeg"
                /\ \A k \in 1..(n - 1) : c[k].rc # 0
                /\ c[n].rc = 0 => (JustRendered(i) \/ t.step = "replace")
                /\ c[n].rc # 0 =>
                     /\ ~JustRendered(i)
                     /\ n < 3
                     /\ t.step = Variants[n + 1]
                /\ JustRendered(i) =>
                     LET d == DstOf(i, JustRenderedStage(i))
                     IN  d \in DOMAIN fs /\ fs[d] = Rendered(files[i], JustRenderedStage(i))

\* a render raises the command failure only from the third variant, after the
\* first two exited non-zero, and otherwise only from the replace step
C1_Exhaustion ==
    \A i \in DOMAIN task :
        (task[i].stage \in RenderStages /\ task[i].err = NoError /\ task'[i].err # NoError) =>
            LET t == task[i]
                tmp == RenderTmp(DstOf(i, t.stage))
            IN  IF task'[i].err[2] = CommandFailed("ffmpeg", "v3", tmp)
                THEN /\ t.step = "v3"
                     /\ Len(t.calls) = 2
                     /\ \A k \in 1..2 : t.calls[k].rc # 0 /\ t.calls[k].op = Variants[k]
                ELSE /\ t.step = "replace"
                     /\ task'[i].err[2] = <<"OSError", "replace", DstOf(i, t.stage)>>

\* C1: the ladder of _render_ffmpeg tries the full expression, then the one
\* without the limiter, then the one from loudnorm onward, each at most once
\* and in that order; a variant is tried only after every earlier one exited
\* non-zero; the first zero exit ends the ladder and the render goes on to
\* put that variant's output in place; exhaustion raises. A render that
\* returned did so with its last attempt's output as the destination.
C1_LadderOrder == [](C1_Ladder) /\ [][C1_Exhaustion]_vars

\* only the third variant exited zero: attempts 1, 2, 3 and the render returned
C1_Witness ==
    \E i \in DOMAIN task :
        /\ JustRendered(i)
        /\ Len(task[i].calls) = 3
        /\ task[i].calls[3].rc = 0

\* while file i's render of stage st has not put a variant in place (it is
\* running, stopped before the replace, or has raised), the destination is
\* what it was before
C2_Unchanged ==
    \A i \in DOMAIN task : \A st \in RenderStages :
        (task[i].stage = st \/ RenderFailed(i, st)) => SameAt(DstOf(i, st))

\* a destination changes only in the replace step that follows a zero exit,
\* and then to the content of the temporary file
C2_OnlyReplace ==
    \A i \in DOMAIN task : \A st \in RenderStages :
        LET d == DstOf(i, st)
            before == IF d \in DOMAIN fs THEN <<fs[d]>> ELSE <<>>
            after  == IF d \in DOMAIN fs' THEN <<fs'[d]>> ELSE <<>>
        IN  before # after =>
              /\ task[i].stage = st /\ task[i].step = "replace"
              /\ task[i].calls[Len(task[i].calls)].rc = 0
              /\ after = <<fs[RenderTmp(d)]>>

\* C2: a render changes its destination only by replacing it with the
\* temporary file after a variant exited zero; in every state during or after
\* a render in which none has been put in place the destination is unchanged
C2_Atomic == [](C2_Unchanged) /\ [][C2_OnlyReplace]_vars

\* stopped after the temporary file was written and before the replace, over
\* a destination that held an earlier output
C2_Witness ==
    \E i \in DOMAIN task :
        /\ task[i].stage = "helmet" /\ task[i].step = "replace"
        /\ HelmetOut(files[i]) \in DOMAIN fs0
        /\ SameAt(HelmetOut(files[i]))
        /\ RenderTmp(HelmetOut(files[i])) \in DOMAIN fs

\* file i's render of stage st has finished, normally or by raising
RenderFinished(i, st) == st \in task[i].ok \/ RenderFailed(i, st)

\* C3: whenever _render_ffmpeg has finished, by returning or by raising
\* (ladder exhausted, replace failed), its temporary file does not exist
C3_TmpGone ==
    \A i \in DOMAIN task : \A st \in RenderStages :
        RenderFinished(i, st) => RenderTmp(DstOf(i, st)) \notin DOMAIN fs

\* a render raised although a temporary file was there (a stale one from an
\* earlier run, overwritten or not by the failed attempts)
C3_Witness ==
    \E i \in DOMAIN task :
        /\ RenderFailed(i, "helmet")
        /\ RenderTmp(HelmetOut(files[i])) \in DOMAIN fs0

\* the files whose outcome is an error
Failing == {i \in DOMAIN task : task[i].err # NoError}

\* C4: no fail-fast: when cmd_apply has returned from a dispatched batch,
\* every discovered file's pipeline has run and returned its one outcome,
\* whichever files failed, and the error list holds exactly the outcomes of
\* the failing files; a returned pipeline is never run again
C4_NoFailFast ==
    /\ [](mainpc = "done" /\ files # <<>> =>
            /\ DOMAIN task = 1..Len(files)
            /\ queue = <<>>
            /\ \A i \in DOMAIN task : task[i].stage = "returned" /\ task[i].collected
            /\ Len(errors) = Cardinality(Failing)
            /\ {errors[k] : k \in 1..Len(errors)} = {task[i].err : i \in Failing})
    /\ [][\A i \in DOMAIN task :
            task[i].stage = "returned" =>
                /\ task'[i].stage = "returned"
                /\ task'[i].err = task[i].err
                /\ task'[i].ran = task[i].ran]_vars

\* two files, the first failed, the second was processed to the end
C4_Witness ==
    /\ mainpc = "done" /\ Len(files) = 2
    /\ task[1].err # NoError /\ task[2].err = NoError
    /\ "helmet" \in task[2].ok
    /\ Len(errors) = 1

\* C5: cmd_apply returns 0 exactly when the engines were found and either no
\* file was discovered or every outcome is success; it returns 1 exactly when
\* an engine is missing or some outcome is an error
C5_ExitStatus ==
    mainpc = "done" =>
        /\ ret \in {0, 1}
        /\ ret = 0 <=> (need = Found /\ (files = <<>> \/ Failing = {}))
        /\ ret = 1 <=> (need # Found \/ Failing # {})

\* a run whose engines were found returned 1 because a file failed
C5_Witness == mainpc = "done" /\ ret = 1 /\ need = Found /\ Failing # {}

\* the stages of a file, in the order process_file runs them
StageOrder ==
    IF args.helmet_only THEN <<"armor", "helmet">> ELSE <<"normal", "armor", "helmet">>

\* C6: the stages of a file start in the order normal render, armor pass,
\* helmet render, each only after the one before it succeeded; the stage that
\* fails is the last one started: after a failed normal render no decode,
\* effect or helmet process runs, after a failed armor pass no helmet render
C6_StageOrder ==
    \A i \in DOMAIN task :
        LET t == task[i]
            n == Len(t.ran)
        IN  /\ n <= Len(StageOrder)
            /\ t.ran = SubSeq(StageOrder, 1, n)
            /\ \A k \in 1..(n - 1) : t.ran[k] \in t.ok
            /\ t.ok \subseteq {t.ran[k] : k \in 1..n}
            /\ t.err # NoError =>
                 /\ n >= 1
                 /\ t.stage = "returned"
                 /\ t.ran[n] = FailedStage(i)
                 /\ FailedStage(i) \notin t.ok
                 /\ \A x \in tmpdirs \cup tmpfiles : x[1] # i

\* a file whose normal render failed: nothing but that render was started
C6_Witness ==
    \E i \in DOMAIN task :
        /\ RenderFailed(i, "normal")
        /\ task[i].ran = <<"normal">>

\* C7: an exception raised while a file's pipeline runs is caught in
\* process_file: the task returns an error outcome made of the file's path
\* relative to the scan root and the cause, cmd_apply goes on and no other
\* task is affected
C7_Caught ==
    /\ [](\A i \in DOMAIN task :
            task[i].err # NoError =>
                /\ task[i].stage = "returned"
                /\ task[i].err[1] = RelativeTo(files[i], args.root))
    /\ [][\A i \in DOMAIN task :
            (task[i].err = NoError /\ task'[i].err # NoError) =>
                /\ task[i].stage \in {"normal", "armor", "helmet"}
                /\ task'[i].stage = "returned"
                /\ task'[i].err[1] = RelativeTo(files[i], args.root)
                /\ task'[i].err[2][1] \in {"command failed", "OSError"}
                /\ mainpc' = mainpc /\ ret' = ret /\ errors' = errors
                /\ \A j \in DOMAIN task : j # i => task'[j] = task[j]]_vars

\* an unexpected exception (the replace step's OSError) became an outcome
C7_Witness ==
    \E i \in DOMAIN task :
        /\ task[i].stage = "returned"
        /\ task[i].err # NoError
        /\ task[i].err[2][1] = "OSError"

\* the render temporaries of file i
TmpsOf(i) == {RenderTmp(DstOf(i, st)) : st \in RenderStages}

\* C8: with skip-if-exists set and the helmet output present, process_file
\* returns success having started no process, created no directory and
\* written no file, whether or not the normal output exists
C8_Skip ==
    \A i \in DOMAIN task :
        ( /\ args.skip_existing
          /\ HelmetOut(files[i]) \in (DOMAIN fs0) \cup dirs0
          /\ task[i].stage # "queued" ) =>
            /\ task[i].stage = "returned"
            /\ task[i].err = NoError
            /\ task[i].did = {}
            /\ task[i].ran = <<>>
            /\ SameAt(NormalOut(files[i]))
            /\ SameAt(HelmetOut(files[i]))
            /\ \A p \in TmpsOf(i) : SameAt(p)
            /\ \A x \in tmpdirs \cup tmpfiles : x[1] # i

\* a file was skipped although its normal output does not exist
C8_Witness ==
    \E i \in DOMAIN task :
        /\ args.skip_existing
        /\ HelmetOut(files[i]) \in DOMAIN fs0
        /\ NormalOut(files[i]) \notin DOMAIN fs0
        /\ task[i].stage = "returned"

\* C9: in dry-run mode no process is started, no directory is created, no
\* file is written or replaced (the tree stays what it was) and every
\* outcome is success
C9_DryRun ==
    args.dry_run =>
        /\ fs = fs0
        /\ dirs = dirs0
        /\ tmpdirs = {} /\ tmpfiles = {}
        /\ \A i \in DOMAIN task :
             /\ task[i].did = {}
             /\ task[i].ran = <<>>
             /\ task[i].stage \in {"queued", "returned"}
             /\ task[i].err = NoError
        /\ errors = <<>>
        /\ mainpc = "done" /\ need = Found => ret = 0

\* a dry run over two discovered files has returned
C9_Witness ==
    /\ args.dry_run
    /\ mainpc = "done"
    /\ Len(files) = 2
    /\ \A i \in DOMAIN task : task[i].collected
    /\ ret = 0

\* the files discovery selected
Selected == {files[k] : k \in 1..Len(files)}

\* C10: with write-in-place off, discovery selects exactly the .ogg files
\* under the root whose name is neither m_-prefixed nor .tmp_-prefixed and
\* that do not lie in the output tree (no file outside the output tree is
\* excluded on account of it, none inside is selected); with write-in-place
\* on, the output-tree exclusion does not apply
C10_Discovery ==
    mainpc # "discover" =>
        Selected =
            {f \in RGlobOgg(DOMAIN fs0, args.root) :
                /\ ~IsMuffledName(Name(f))
                /\ ~IsTmpName(Name(f))
                /\ (args.in_place \/ ~IsUnder(f, args.out_dir))}

\* the path of source f relative to the scan root, component by component
RelOf(f) == [k \in 1..(Len(f) - Len(args.root)) |-> f[Len(args.root) + k]]

\* the layout policy's normal output of f: <out-dir>/rel
PolicyNormal(f) == args.out_dir \o RelOf(f)

\* the layout policy's helmet output of f: m_<name> beside the normal output,
\* or beside the source when write-in-place is on
PolicyHelmet(f) ==
    (IF args.in_place THEN SubSeq(f, 1, Len(f) - 1)
     ELSE SubSeq(PolicyNormal(f), 1, Len(PolicyNormal(f)) - 1))
    \o << <<"m", "_">> \o f[Len(f)] >>

\* C11: for every discovered file the normal output is <out-dir>/rel and the
\* helmet output is m_<source name>, beside the normal output when
\* write-in-place is off and beside the source when it is on; the renders
\* put their results at exactly these paths
C11_Layout ==
    /\ \A k \in 1..Len(files) :
         /\ NormalOut(files[k]) = PolicyNormal(files[k])
         /\ HelmetOut(files[k]) = PolicyHelmet(files[k])
    /\ \A i \in DOMAIN task :
         /\ "normal" \in task[i].ok =>
              /\ PolicyNormal(files[i]) \in DOMAIN fs
              /\ fs[PolicyNormal(files[i])] = Rendered(files[i], "normal")
         /\ "helmet" \in task[i].ok =>
              /\ PolicyHelmet(files[i]) \in DOMAIN fs
              /\ fs[PolicyHelmet(files[i])] = Rendered(files[i], "helmet")

\* a write-in-place run put the helmet output beside its source and the
\* normal output in the mirrored tree
C11_Witness ==
    \E i \in DOMAIN task :
        /\ args.in_place
        /\ {"normal", "helmet"} \subseteq task[i].ok
        /\ Join(Parent(files[i]), PfxM \o Name(files[i])) \in DOMAIN fs
        /\ Parent(files[i]) # Parent(PolicyNormal(files[i]))

\* C12: in mirrored-output mode a run that follows a successful run, with
\* skip-if-exists set, starts no process, creates no directory, writes or
\* replaces no file and reports no error
C12_SecondRun ==
    (runs >= 2 /\ ~args.in_place) =>
        /\ fs = fs0
        /\ dirs = dirs0
        /\ tmpdirs = {} /\ tmpfiles = {}
        /\ errors = <<>>
        /\ \A i \in DOMAIN task :
             /\ task[i].did = {}
             /\ task[i].ran = <<>>
             /\ task[i].err = NoError
             /\ task[i].stage \in {"queued", "returned"}
        /\ (mainpc = "done" /\ need = Found) => ret = 0

\* the second run, after a first one that produced both outputs in the
\* mirrored tree, found the source again, skipped it and returned 0
C12_Witness ==
    /\ runs = 2 /\ ~args.in_place /\ ~args.helmet_only
    /\ mainpc = "done" /\ ret = 0
    /\ Len(files) = 1
    /\ NormalOut(files[1]) \in DOMAIN fs /\ HelmetOut(files[1]) \in DOMAIN fs
    /\ task[1].stage = "returned"

\* C13: re-running with skip-if-exists set converges in every configuration:
\* the run that follows MaxRuns - 1 successful runs of the same command
\* writes nothing, the tree it returns from is the tree it was started on
C13_Converges ==
    (runs = MaxRuns /\ mainpc = "done" /\ ret = 0) => fs = fs0

\* the decode as the calls of an armor pass show it: ffmpeg is about to run
\* only after sox exited non-zero; the wet chain starts only after sox exited
\* zero with ffmpeg not run, or sox exited non-zero and ffmpeg exited zero
C14_DecodeCalls ==
    \A i \in DOMAIN task :
        LET t == task[i]
            c == t.calls
        IN  /\ (t.stage = "armor" /\ t.step = "decode2") =>
                 /\ Len(c) = 1
                 /\ c[1].tool = "sox" /\ c[1].op = "decode" /\ c[1].rc # 0
            /\ (t.stage = "armor" /\ t.step = "wet") =>
                 /\ Len(c) \in 1..2
                 /\ c[1].tool = "sox" /\ c[1].op = "decode"
                 /\ Len(c) = 1 => c[1].rc = 0
                 /\ Len(c) = 2 =>
                      /\ c[1].rc # 0
                      /\ c[2].tool = "ffmpeg" /\ c[2].op = "decode2" /\ c[2].rc = 0

\* a step of the decode: the sox call never fails the file, it leads to the
\* wet chain or to the ffmpeg call by its exit status; the ffmpeg call leads
\* to the wet chain or fails the file with the command failure
C14_DecodeStep ==
    \A i \in DOMAIN task :
        (task[i].stage = "armor" /\ task'[i] # task[i]) =>
            /\ task[i].step = "decode" =>
                 /\ task'[i].err = NoError
                 /\ task'[i].stage = "armor"
                 /\ task'[i].step \in {"wet", "decode2"}
                 /\ task'[i].step = "wet" <=> task'[i].calls[1].rc = 0
            /\ task[i].step = "decode2" =>
                 \/ /\ task'[i].err = NoError
                    /\ task'[i].stage = "armor" /\ task'[i].step = "wet"
                 \/ /\ task'[i].stage = "returned"
                    /\ task'[i].err # NoError
                    /\ task'[i].err[2] =
                         CommandFailed("ffmpeg", "decode2", <<i, "fx", "dry">>)
            /\ (task'[i].err # NoError /\ task'[i].err[2][3] \in {"decode", "decode2"}) =>
                 task[i].step = "decode2"

\* C14: the decode runs sox first; ffmpeg is run if and only if sox exited
\* non-zero; the decode fails, failing the file, if and only if both exited
\* non-zero
C14_Decode == [](C14_DecodeCalls) /\ [][C14_DecodeStep]_vars

\* the wet chain started on a file that sox failed to decode and ffmpeg decoded
C14_Witness ==
    \E i \in DOMAIN task :
        /\ task[i].stage = "armor" /\ task[i].step = "wet"
        /\ Len(task[i].calls) = 2

\* the encode calls a task's call log holds
EncodeCalls(i) ==
    {task[i].calls[k] : k \in {j \in 1..Len(task[i].calls) :
                                  task[i].calls[j].op \in {"encode", "encode2"}}}

\* C15: the encode runs sox at the preset's configured quality and, when
\* that fails, ffmpeg at the same configured quality level, whatever the
\* preset
C15_EncodeQuality ==
    \A i \in DOMAIN task : \A c \in EncodeCalls(i) :
        /\ c.q = OggQuality(args.preset)
        /\ c.op = "encode2" =>
             /\ c.tool = "ffmpeg"
             /\ \E d \in EncodeCalls(i) : d.op = "encode" /\ d.tool = "sox" /\ d.rc # 0

\* _need raises exactly when the engine and its fallback (if it has one) are
\* both missing: for sox when sox_ng and sox are missing, for ffmpeg when
\* ffmpeg is missing
C16_Detected ==
    \A soxNg \in BOOLEAN, sox \in BOOLEAN, ffmpeg \in BOOLEAN :
        /\ Need(soxNg, TRUE, sox) = None <=> (~soxNg /\ ~sox)
        /\ Need(ffmpeg, FALSE, sox) = None <=> ~ffmpeg

\* the dependency check raised
Missing == need # Unchecked /\ need # Found

\* C16: a missing engine is detected before discovery and dispatch: cmd_apply
\* returns 1 having discovered nothing, run no pipeline, started no process
\* and written no file; discovery and dispatch happen only with the engines
\* found
C16_MissingEngine ==
    /\ C16_Detected
    /\ Missing =>
         /\ need[1] = "missing dependency" /\ need[2] \in {"sox", "ffmpeg"}
         /\ mainpc = "done" /\ ret = 1
         /\ files = <<>> /\ task = <<>> /\ queue = <<>>
         /\ errors = <<>>
         /\ fs = fs0 /\ dirs = dirs0
         /\ tmpdirs = {} /\ tmpfiles = {}
    /\ (mainpc \in {"discover", "submit", "collect"} \/ files # <<>> \/ task # <<>>) =>
         need = Found

\* ffmpeg was missing on a tree that holds two sources: the run returned 1
C16_Witness ==
    /\ Missing /\ need[2] = "ffmpeg"
    /\ mainpc = "done" /\ ret = 1
    /\ Cardinality(DOMAIN fs) >= 2

\* C17: at every moment the number of pipelines executing is at most --jobs
C17_PoolBound == Cardinality(Running) <= args.jobs

\* the pool is full and a submitted file waits for a free thread
C17_Witness ==
    /\ Cardinality(Running) = args.jobs
    /\ queue # <<>>
    /\ Len(files) > args.jobs

\* the paths the pipeline of source f writes: the two outputs and the
\* temporary file of each render
WriteSet(f) ==
    {NormalOut(f), HelmetOut(f), RenderTmp(NormalOut(f)), RenderTmp(HelmetOut(f))}

\* C18: the write sets of any two distinct files discovered in one run are
\* disjoint, in mirrored and in write-in-place mode
C18_Disjoint ==
    \A j \in 1..Len(files) : \A k \in 1..Len(files) :
        j # k => WriteSet(files[j]) \cap WriteSet(files[k]) = {}

\* a write-in-place run discovered a file of the output tree next to the
\* source whose normal output it is: their outputs share a directory
C18_Witness ==
    /\ args.in_place
    /\ \E j \in 1..Len(files) : \E k \in 1..Len(files) :
         /\ j # k
         /\ NormalOut(files[j]) = files[k]
         /\ Parent(HelmetOut(files[k])) = Parent(NormalOut(files[j]))

\* the files whose error outcome the scheduler has taken from their future
CollectedFailing == {i \in DOMAIN task : task[i].collected /\ task[i].err # NoError}

\* the error list holds one entry per collected failing file, each once
C19_Entries ==
    /\ Len(errors) = Cardinality(CollectedFailing)
    /\ {errors[k] : k \in 1..Len(errors)} = {task[i].err : i \in CollectedFailing}

\* the error list changes only by the scheduler appending the outcome of a
\* returned future it had not yet taken, in a step in which no worker moves
C19_OnlyScheduler ==
    errors' # errors =>
        /\ mainpc = "collect"
        /\ \E i \in DOMAIN task :
             /\ task[i].stage = "returned"
             /\ ~task[i].collected /\ task'[i].collected
             /\ task[i].err # NoError
             /\ errors' = Append(errors, task[i].err)
             /\ \A j \in DOMAIN task : j # i => task'[j] = task[j]
        /\ \A j \in DOMAIN task : task'[j].stage = task[j].stage

\* C19: the error list is appended to only by the scheduler as futures
\* complete, never by a worker; under every interleaving and completion
\* order it holds exactly one entry per failed file
C19_RaceFree == [](C19_Entries) /\ [][C19_OnlyScheduler]_vars

\* two files failed and were collected in the opposite of submission order
C19_Witness ==
    /\ mainpc = "done"
    /\ Len(errors) = 2 /\ Len(files) = 2
    /\ task[1].err # NoError /\ task[2].err # NoError
    /\ errors[1] = task[2].err /\ errors[2] = task[1].err

\* every transient file lies in a live temporary directory of the pipeline
\* that made it, temporary directories belong to pipelines that are running,
\* and the tree holds nothing but what it held, the outputs and the render
\* temporaries
C20_Scoped ==
    /\ \A x \in tmpfiles : <<x[1], x[2]>> \in tmpdirs
    /\ \A d \in tmpdirs :
         /\ d[1] \in DOMAIN task
         /\ task[d[1]].stage \in {"armor", "helmet", "cleanup"}
    /\ \A i \in DOMAIN task :
         task[i].stage = "returned" => \A x \in tmpdirs \cup tmpfiles : x[1] # i
    /\ DOMAIN fs \subseteq
         (DOMAIN fs0) \cup UNION {WriteSet(files[k]) : k \in 1..Len(files)}

\* a step of the armor pass touches neither the tree nor its directories
C20_ArmorStep ==
    \A i \in DOMAIN task :
        (task[i].stage = "armor" /\ task'[i] # task[i]) => (fs' = fs /\ dirs' = dirs)

\* C20: the decoded, wet, mixed, gained and armored intermediates live in
\* temporary directories owned by the pipeline execution; once process_file
\* has returned, with success or an error at any stage, those directories
\* and their files are gone; no intermediate is placed in the output tree or
\* beside the source
C20_Transient == [](C20_Scoped) /\ [][C20_ArmorStep]_vars

\* the file failed at the last step of the armor pass, after every
\* intermediate had been made, and nothing of it is left
C20_Witness ==
    \E i \in DOMAIN task :
        /\ task[i].stage = "returned"
        /\ task[i].err # NoError
        /\ task[i].err[2] = CommandFailed("ffmpeg", "encode2", <<i, "batch", "raw">>)
        /\ \A x \in tmpdirs \cup tmpfiles : x[1] # i

\* C21: in helmet-only mode no normal render is started and the normal output
\* path and its temporary sibling are left as they were, while a file that
\* is processed goes through the armor pass and then the helmet render
C21_HelmetOnly ==
    args.helmet_only =>
        \A i \in DOMAIN task :
            LET t == task[i]
            IN  /\ t.stage # "normal"
                /\ \A k \in 1..Len(t.ran) : t.ran[k] # "normal"
                /\ "normal" \notin t.ok
                /\ SameAt(NormalOut(files[i]))
                /\ SameAt(RenderTmp(NormalOut(files[i])))
                /\ t.stage \in {"armor", "helmet", "cleanup"} =>
                     (t.stage = "armor" \/ (Len(t.ran) >= 1 /\ t.ran[1] = "armor"))
                /\ (t.stage = "returned" /\ t.err = NoError /\ t.did # {}) =>
                     /\ t.ran = <<"armor", "helmet">>
                     /\ HelmetOut(files[i]) \in DOMAIN fs
                     /\ fs[HelmetOut(files[i])] = Rendered(files[i], "helmet")

\* a helmet-only run processed a file to the end: the helmet output is
\* there, the normal output is not
C21_Witness ==
    \E i \in DOMAIN task :
        /\ args.helmet_only
        /\ task[i].stage = "returned" /\ task[i].err = NoError
        /\ "helmet" \in task[i].ok
        /\ NormalOut(files[i]) \notin DOMAIN fs

\* cmd_apply has returned from a dispatched batch with every outcome taken
BatchDone ==
    /\ mainpc = "done"
    /\ \A i \in DOMAIN task : task[i].stage = "returned" /\ task[i].collected

\* C22: a dispatched batch runs to completion: cmd_apply eventually returns
\* with every file's pipeline returned and its outcome collected; every
\* submitted file is eventually taken by a worker
C22_Completes ==
    /\ (mainpc = "collect") ~> BatchDone
    /\ \A k \in 1..(MaxFiles + 1) :
         (k \in DOMAIN task /\ task[k].stage = "queued")
            ~> (k \in DOMAIN task /\ task[k].stage = "returned")

\* the pool is full, one file waits in the queue and the scheduler waits for
\* a future to complete
C22_Witness ==
    /\ mainpc = "collect"
    /\ Len(files) = 2 /\ args.jobs = 1
    /\ task[1].stage = "armor" /\ task[2].stage = "queued"
    /\ \A i \in DOMAIN task : ~task[i].collected

\* a finite value of the unit range [0, 1]
InUnit(x) == IsFin(x) /\ 0 <= x[2] /\ x[2] <= Milli

\* the invocations of an operation a task has in its record
CallsOf(i, op) == {k \in DOMAIN task[i].calls : task[i].calls[k].op = op}

\* the bundle a run uses, once it is resolved
RunPreset == heap[armor_preset]

\* C23: under every registry preset and every value of the wet and wet-gain
\* overrides (negative, above 1, NaN, infinite), the mix is invoked with a wet
\* level that lies in [0,1] and is the clamp of wet x wet_gain of the run's
\* bundle, and with a dry level that is 1 minus that wet level and lies in
\* [0,1] as well.
C23_Levels ==
    \A i \in DOMAIN task : \A k \in CallsOf(i, "mix") :
        LET c == task[i].calls[k]
        IN  /\ InUnit(c.wet)
            /\ InUnit(c.dry)
            /\ c.dry[2] = Milli - c.wet[2]
            /\ c.wet = Clamp01(Mul(RunPreset.wet, RunPreset.wet_gain))

\* the heavy preset with a wet gain of 2 is mixed fully wet, and a wet
\* override that is not a number has been mixed too
C23_Witness ==
    \E i \in DOMAIN task : \E k \in CallsOf(i, "mix") :
        /\ args.preset = "heavy" /\ args.wet = NoValue /\ args.wet_gain = Dec(2, 0)
        /\ task[i].calls[k].wet = One
        /\ task[i].calls[k].dry = Zero

\* the fields a command line can override
Overridable == {"wet", "wet_gain", "comb_hz", "comb_decay"}

\* the registry bundle a preset name stands for when the module is imported
Imported(name) == ImportedObjects[ImportedPresets[name]]

\* C24: override application is pure. At every point of a run the registry
\* names the objects it named at import, "marine" and "halo" name one object,
\* and every registry object holds the values it was built with; once the
\* per-run preset is resolved it is an object of its own, none of the
\* registry's, and its fields are determined by the preset name and the
\* overrides alone: the clamped wet override, the other overrides as given,
\* and the registry bundle's value for every field that was not overridden.
C24_Pure ==
    /\ PRESETS = ImportedPresets
    /\ PRESETS.marine = PRESETS.halo
    /\ \A n \in DOMAIN PRESETS : heap[PRESETS[n]] = Imported(n)
    /\ armor_preset # NoObject =>
         /\ armor_preset \in DOMAIN heap
         /\ \A n \in DOMAIN PRESETS : armor_preset # PRESETS[n]
         /\ \A f \in DOMAIN RunPreset :
              RunPreset[f] =
                  IF f \in Overridable /\ args[f] # NoValue
                  THEN (IF f = "wet" THEN Clamp01(args.wet) ELSE args[f])
                  ELSE Imported(args.preset)[f]

\* a run under "halo" with a wet override of 1.5 and a comb override has
\* returned: its bundle carries the overrides, the shared entry does not
C24_Witness ==
    /\ mainpc = "done" /\ Len(files) = 1
    /\ args.preset = "halo" /\ args.wet = Dec(1, 500) /\ args.comb_hz = Dec(0, 500)
    /\ RunPreset.wet = One /\ RunPreset.comb_hz = Dec(0, 500)
    /\ heap[PRESETS.marine].wet = Dec(0, 340)
    /\ heap[PRESETS.halo].comb_hz = Dec(235, 0)

\* a finite value above zero
Positive(x) == IsFin(x) /\ x[2] > 0

\* the data-model invariant of an ArmorPreset: wet ratio and decay values in
\* [0,1], frequencies strictly positive
ValidPreset(p) ==
    /\ InUnit(p.wet)
    /\ InUnit(p.comb_decay) /\ InUnit(p.slap_decay)
    /\ Positive(p.comb_hz)
    /\ p.hipass > 0 /\ p.lopass > 0 /\ p.inner_lp > 0
    /\ p.eq1_f > 0 /\ p.eq2_f > 0

\* C25 as stated: the bundle of every run satisfies the data-model invariant
\* whatever overrides were given.
C25_AnyOverride == armor_preset # NoObject => ValidPreset(RunPreset)

\* C25: every registry entry satisfies the data-model invariant, and so does
\* the bundle of every run whose comb-frequency override is absent or finite
\* and positive and whose comb-decay override is absent or in [0,1], whatever
\* the wet and wet-gain overrides are; the comb overrides themselves are
\* passed through as given.
C25_Invariant ==
    /\ \A n \in DOMAIN PRESETS : ValidPreset(heap[PRESETS[n]])
    /\ armor_preset # NoObject =>
         /\ (/\ args.comb_hz = NoValue \/ Positive(args.comb_hz)
             /\ args.comb_decay = NoValue \/ InUnit(args.comb_decay))
                => ValidPreset(RunPreset)
         /\ args.comb_hz # NoValue => RunPreset.comb_hz = args.comb_hz
         /\ args.comb_decay # NoValue => RunPreset.comb_decay = args.comb_decay

\* a run whose wet override is not a number and whose comb overrides are in
\* range has used its bundle for the wet chain
C25_Witness ==
    \E i \in DOMAIN task : \E k \in CallsOf(i, "wet") :
        /\ args.wet = NaN /\ args.wet_gain = NegInf
        /\ args.comb_hz = Dec(0, 500) /\ args.comb_decay = Dec(0, 500)
        /\ ValidPreset(RunPreset)
        /\ RunPreset.wet = One

\* the comb period the wet chain was invoked with matches the bundle's
\* frequency: the nearest thousandth of 1000/hz for a finite positive hz,
\* zero for an infinite one, exactly 5.0 for every other value
PeriodOf(ms, hz) ==
    CASE Positive(hz) ->
           /\ IsFin(ms)
           /\ 2 * ms[2] * hz[2] - 2 * Milli * Milli * Milli <= hz[2]
           /\ 2 * Milli * Milli * Milli - 2 * ms[2] * hz[2] <= hz[2]
      [] hz = Inf -> ms = Zero
      [] OTHER    -> ms = Dec(5, 0)

\* C30: the comb period passed to the wet chain is 1000/combHz milliseconds
\* for every combHz > 0 (4.545 ms at 220 Hz, to the thousandth) and exactly
\* 5.0 ms for every combHz that is zero, negative or not a number; it is
\* never the outcome of a division by zero.
C30_CombPeriod ==
    /\ CombMs(Dec(220, 0)) = Dec(4, 545)
    /\ CombMs(Zero) = Dec(5, 0)
    /\ \A i \in DOMAIN task : \A k \in CallsOf(i, "wet") :
         LET c == task[i].calls[k]
         IN  /\ c.comb_ms # ZeroDivisionError
             /\ PeriodOf(c.comb_ms, RunPreset.comb_hz)

\* the wet chain has run with a comb override of zero and a period of 5.0 ms
C30_Witness ==
    \E i \in DOMAIN task : \E k \in CallsOf(i, "wet") :
        /\ args.comb_hz = Zero
        /\ RunPreset.comb_hz = Zero
        /\ task[i].calls[k].comb_ms = Dec(5, 0)
        /\ task[i].calls[k].rc = 0

\* the names of the restoration stages
RestoreNames == {"highpass", "afftdn", "highshelf", "aexciter", "deesser"}

\* the positions of the stages of a name in an expression
StagesAt(af, names) == {k \in DOMAIN af : af[k].name \in names}

\* the expressions built for the render a task is in: those its first rung
\* was invoked with
BuiltAf(i) ==
    IF task[i].stage \in RenderStages
    THEN {task[i].calls[k].af : k \in CallsOf(i, "v1")}
    ELSE {}

\* the gain trim of the render a task is in
GainOf(i) == IF task[i].stage = "normal" THEN args.normal_db ELSE args.helmet_db

\* C26: the expression built for a render holds restoration stages if and
\* only if restore is asked for that render: without restore there is none,
\* with restore the expression begins with the five stages of the selected
\* strength's chain, parameter for parameter (highpass f=80 first for
\* "strong"), the loudness-normalization stage follows them at once, and no
\* restoration stage comes after it.
C26_Restore ==
    \A i \in DOMAIN task : \A af \in BuiltAf(i) :
        IF ShouldRestore(args.restore, task[i].stage)
        THEN /\ Len(af) >= 6
             /\ SubSeq(af, 1, 5) = RESTORE_CHAINS[args.restore_strength]
             /\ args.restore_strength = "strong" =>
                  /\ af[1] = Stage("highpass", <<<<"f", Dec(80, 0)>>>>)
                  /\ af[3] = Stage("highshelf", <<<<"f", Dec(3000, 0)>>, <<"g", Dec(4, 0)>>>>)
                  /\ af[5] = Stage("deesser", <<<<"i", Dec(0, 200)>>, <<"m", Dec(0, 550)>>,
                                                <<"f", Dec(0, 500)>>>>)
             /\ af[6].name = "loudnorm"
             /\ StagesAt(af, RestoreNames) = 1..5
        ELSE StagesAt(af, RestoreNames) = {}

\* a helmet render with the strong chain, and no chain in the normal render
\* before it
C26_Witness ==
    \E i \in DOMAIN task : \E af \in BuiltAf(i) :
        /\ task[i].stage = "helmet"
        /\ args.restore = "helmet" /\ args.restore_strength = "strong"
        /\ af[2].params[1] = <<"nr", Dec(9, 0)>>
        /\ af[6].name = "loudnorm"

\* C27: the expression holds a volume-trim stage if and only if the gain trim
\* of the render is not zero: none for a zero gain, exactly one for a
\* positive, a negative or a not-a-number gain, carrying that gain and placed
\* right after the loudness-normalization stage.
C27_Volume ==
    \A i \in DOMAIN task : \A af \in BuiltAf(i) :
        LET vol == StagesAt(af, {"volume"})
            ln  == StagesAt(af, {"loudnorm"})
        IN  /\ Cardinality(ln) = 1
            /\ IF GainOf(i) = Zero
               THEN vol = {}
               ELSE /\ Cardinality(vol) = 1
                    /\ \A v \in vol :
                         /\ v - 1 \in ln
                         /\ af[v].params = <<<<"volume", GainOf(i)>>>>

\* a normal render trimmed by -3 dB in a run whose helmet trim is zero
C27_Witness ==
    \E i \in DOMAIN task : \E af \in BuiltAf(i) :
        /\ task[i].stage = "normal"
        /\ args.normal_db = Dec(0 - 3, 0) /\ args.helmet_db = Zero
        /\ args.restore = "none"
        /\ Len(af) = 3
        /\ af[2] = Stage("volume", <<<<"volume", Dec(0 - 3, 0)>>>>)

\* C28: whatever the restore mode, strength, gain trims and linear flag, the
\* expression built for a render holds exactly one peak-limiter stage and it
\* is the last stage.
C28_Limiter ==
    \A i \in DOMAIN task : \A af \in BuiltAf(i) :
        /\ Len(af) >= 2
        /\ StagesAt(af, {"alimiter"}) = {Len(af)}
        /\ af[Len(af)].params = <<<<"limit", args.limit>>>>

\* the longest expression: restore chain, loudnorm, trim, limiter
C28_Witness ==
    \E i \in DOMAIN task : \E af \in BuiltAf(i) :
        /\ args.restore = "both" /\ GainOf(i) = Dec(2, 500)
        /\ Len(af) = 8
        /\ af[7].name = "volume"
        /\ af[8].name = "alimiter"

\* C29: restore chain and gain trim are chosen per pass. The normal render's
\* expression has the restore chain exactly when the mode is "normal" or
\* "both" and is trimmed by the normal gain; the helmet render's has it
\* exactly when the mode is "helmet" or "both" and is trimmed by the helmet
\* gain; with mode "none" neither has it.
C29_PerPass ==
    \A i \in DOMAIN task : \A af \in BuiltAf(i) :
        LET chain == StagesAt(af, RestoreNames) # {}
            trim  == {af[k].params[1][2] : k \in StagesAt(af, {"volume"})}
            gain  == IF task[i].stage = "normal" THEN args.normal_db ELSE args.helmet_db
        IN  /\ task[i].stage = "normal" => (chain <=> args.restore \in {"normal", "both"})
            /\ task[i].stage = "helmet" => (chain <=> args.restore \in {"helmet", "both"})
            /\ args.restore = "none" => ~chain
            /\ trim = (IF gain = Zero THEN {} ELSE {gain})

\* mode "normal" with different trims: the helmet render is built without a
\* chain and with the helmet trim, after the normal render succeeded
C29_Witness ==
    \E i \in DOMAIN task : \E af \in BuiltAf(i) :
        /\ task[i].stage = "helmet" /\ "normal" \in task[i].ok
        /\ args.restore = "normal"
        /\ args.normal_db = Dec(2, 500) /\ args.helmet_db = Dec(0 - 3, 0)
        /\ af[1].name = "loudnorm"
        /\ af[2] = Stage("volume", <<<<"volume", Dec(0 - 3, 0)>>>>)

\* C31: the third ladder variant of every built expression starts at the
\* loudness-normalization stage of that expression, holds no restoration
\* stage and no limiter stage, and holds the volume trim exactly when the gain
\* of the render is not zero; the truncation always finds a loudnorm stage, so
\* no task ends with an IndexError; and a render has logged its warning
\* exactly when it has gone on to the third variant, once, naming the
\* destination.
C31_ThirdVariant ==
    \A i \in DOMAIN task :
        /\ task[i].stage \in RenderStages =>
             \A k \in CallsOf(i, "v3") :
                 LET af3 == task[i].calls[k].af
                     af  == AfOf(args, task[i].stage)
                 IN  /\ Len(af3) >= 1
                     /\ af3[1].name = "loudnorm"
                     /\ \E j \in DOMAIN af : af[j] = af3[1]
                     /\ StagesAt(af3, RestoreNames) = {}
                     /\ StagesAt(af3, {"alimiter"}) = {}
                     /\ IF GainOf(i) = Zero
                        THEN Len(af3) = 1
                        ELSE /\ Len(af3) = 2
                             /\ af3[2] = Stage("volume", <<<<"volume", GainOf(i)>>>>)
        /\ task[i].err # NoError => task[i].err[2][1] # "IndexError"
        /\ Len(task[i].log) = Cardinality(CallsOf(i, "v3"))
        /\ task[i].stage \in RenderStages =>
             \A k \in DOMAIN task[i].log : task[i].log[k][2] = Name(RenderDst(i))
        /\ (task[i].stage \in RenderStages /\ task[i].step \in {"v1", "v2", "v3"}) =>
             task[i].log = <<>>

\* a helmet render with the restore chain and a trim has run its third
\* variant after two failures, and has warned
C31_Witness ==
    \E i \in DOMAIN task : \E k \in CallsOf(i, "v3") :
        /\ task[i].stage = "helmet"
        /\ args.restore = "both" /\ args.helmet_db = Dec(2, 500)
        /\ Len(task[i].calls) = 3
        /\ Len(task[i].calls[1].af) = 8
        /\ Len(task[i].calls[k].af) = 2
        /\ Len(task[i].log) = 1

\* the order of the armor steps: a step is followed by the next one, decode
\* and encode also by their second engine
ArmorOrder ==
    {<<"decode", "wet">>, <<"decode", "decode2">>, <<"decode2", "wet">>,
     <<"wet", "mix">>, <<"mix", "gain">>, <<"gain", "encode">>,
     <<"encode", "encode2">>}

\* the steps whose non-zero exit is final
NoFallback == {"decode2", "wet", "mix", "gain", "encode2"}

\* the armored file of a task, inside its temporary directory
ArmoredFile(i) == <<i, "batch", "raw">>

\* C32: the armor pass starts with decode and goes decode, wet chain, mix,
\* gain, encode; only decode and encode are followed by a second engine
\* (ffmpeg, after a non-zero exit of sox), every other step is run by sox
\* once; a step is followed by the next one only if it (or its second engine)
\* exited with zero; and a non-zero exit of the wet chain, the mix or the gain
\* ends the pipeline with an error that names that step, with no later step
\* invoked, the armor pass not succeeded, the helmet render not started and
\* no armored file left.
C32_ArmorOrder ==
    [][\A i \in DOMAIN task \cap DOMAIN task' :
         LET t == task[i]
             u == task'[i]
             c == u.calls[Len(u.calls)]
         IN  /\ (t.stage # "armor" /\ u.stage = "armor") => u.step = "decode"
             /\ (t.stage = "armor" /\ u # t) =>
                  \/ /\ u.stage = "armor"
                     /\ <<t.step, u.step>> \in ArmorOrder
                     /\ c.op = t.step
                     /\ c.tool = (IF t.step \in {"decode2", "encode2"} THEN "ffmpeg" ELSE "sox")
                     /\ c.rc # 0 <=> u.step \in {"decode2", "encode2"}
                     /\ ArmoredFile(i) \in tmpfiles' => t.step = "encode"
                  \/ /\ u.stage = "helmet"
                     /\ t.step \in {"encode", "encode2"}
                     /\ c.op = t.step /\ c.rc = 0
                     /\ "armor" \in u.ok
                     /\ ArmoredFile(i) \in tmpfiles'
                  \/ /\ u.stage = "returned"
                     /\ t.step \in NoFallback
                     /\ u.err # NoError
                     /\ u.err[2][1] = "command failed"
                     /\ u.err[2][3] = t.step
                     /\ "armor" \notin u.ok
                     /\ \A k \in DOMAIN u.ran : u.ran[k] # "helmet"
                     /\ \A x \in tmpfiles' : x[1] # i
      ]_vars

\* a pipeline ended by a non-zero exit of the mix step
C32_Witness ==
    \E i \in DOMAIN task :
        /\ task[i].stage = "returned"
        /\ task[i].err # NoError
        /\ task[i].err[2][1] = "command failed"
        /\ task[i].err[2][3] = "mix"
        /\ "armor" \notin task[i].ok

\* C33: a run never overwrites its own inputs: no discovered file's normal or
\* helmet output path is the path of a file discovered in the same run,
\* mirrored or write-in-place, with the output directory inside or outside
\* the scan root.
C33_NoSelfOverwrite ==
    \A j \in 1..Len(files) : \A k \in 1..Len(files) :
        /\ HelmetOut(files[j]) # files[k]
        /\ ~args.helmet_only => NormalOut(files[j]) # files[k]

\* what a path holds in a file system: nothing, or its content
Held(f, p) == IF p \in DOMAIN f THEN <<f[p]>> ELSE <<>>

\* the stages process_file runs before the helmet render
BeforeHelmet == IF args.helmet_only THEN {"armor"} ELSE {"normal", "armor"}

\* a file whose outcome is an error has the helmet output it had before the
\* run; a helmet output that differs from before the run belongs to a file
\* whose earlier stages all succeeded, and outside helmet-only mode the
\* normal output of that file is the one this run rendered
C34_State ==
    \A i \in DOMAIN task :
        LET h == HelmetOut(files[i])
            n == NormalOut(files[i])
        IN  /\ task[i].err # NoError => SameAt(h) /\ "helmet" \notin task[i].ok
            /\ ~SameAt(h) =>
                 /\ BeforeHelmet \subseteq task[i].ok
                 /\ "helmet" \in task[i].ok
                 /\ Held(fs, h) = <<Rendered(files[i], "helmet")>>
                 /\ ~args.helmet_only =>
                      /\ task[i].ran = <<"normal", "armor", "helmet">>
                      /\ Held(fs, n) = <<Rendered(files[i], "normal")>>

\* a step that changes a file's helmet output is taken by that file's task
\* after its earlier stages succeeded, the normal output already in place
C34_Step ==
    \A i \in DOMAIN task :
        LET h == HelmetOut(files[i])
        IN  Held(fs', h) # Held(fs, h) =>
              /\ task[i].stage = "helmet"
              /\ BeforeHelmet \subseteq task[i].ok
              /\ ~args.helmet_only =>
                   Held(fs, NormalOut(files[i])) = <<Rendered(files[i], "normal")>>

\* C34: a file's helmet output is created or replaced only after every
\* earlier stage of that file succeeded. A file whose outcome is an error has
\* its helmet output unchanged from before the run, and outside helmet-only
\* mode a helmet output written by the run belongs to a file whose normal
\* output the same run wrote before it.
C34_HelmetLast == [](C34_State) /\ [][C34_Step]_vars

\* a helmet render failed over a helmet output an earlier run had left, after
\* the normal render and the armor pass had succeeded
C34_Witness ==
    \E i \in DOMAIN task :
        /\ ~args.helmet_only
        /\ task[i].stage = "returned" /\ task[i].err # NoError
        /\ task[i].ran = <<"normal", "armor", "helmet">>
        /\ HelmetOut(files[i]) \in DOMAIN fs0
        /\ SameAt(HelmetOut(files[i]))
        /\ ~SameAt(NormalOut(files[i]))

\* the .ogg files of a folder, and the group (muffled or not) of the .ogg
\* files process_folder found
OggNames(d) == {n \in DOMAIN d : IsOgg(n)}
GroupAtStart(m) == {n \in OggNames(folder0) : Muffled(n) = m}
FixEnded == fixpc \in {"done", "raised"} /\ ~fix_args.dry_run

\* C35: process_folder (not dry-run) never loses a file: whatever .ogg
\* names the folder holds at the start, names of the form of its __tmp_
\* staging names included, the folder holds as many .ogg files after the
\* two-pass rename as before, the non-muffled ones are named <folder>_1 ..
\* <folder>_n and the muffled ones m_<folder>_1 .. m_<folder>_k, and each
\* group is ordered by the numeric index its files had before.
C35_NoLoss ==
    FixEnded =>
        /\ Cardinality(OggNames(folder)) = Cardinality(OggNames(folder0))
        /\ \A m \in BOOLEAN :
              LET n == Cardinality(GroupAtStart(m))
                  T(i) == Target(fix_args.folder_name, m, i)
              IN  /\ {f \in OggNames(folder) : Muffled(f) = m}
                        = {T(i) : i \in 1..n}
                  /\ \A i \in 1..n : \A j \in 1..n :
                        i < j => ExtractIndex(folder[T(i)])
                                     <= ExtractIndex(folder[T(j)])

\* C35 holds on the folders without a name of the staging form
C35_NoLossUnstaged ==
    (\A n \in DOMAIN folder0 : ~StartsWith(n, PfxStage)) => C35_NoLoss

\* the folder of A_1.ogg and __tmp_A_1.ogg after process_folder was left:
\* one file remains
C35_Lost ==
    /\ FixEnded
    /\ DOMAIN folder0 = {nA1, StageName(nA1)}
    /\ fixpc = "raised"
    /\ Cardinality(DOMAIN folder) = 1

====
